---------------------------- MODULE Spec2Model ----------------------------
(***************************************************************************)
(* Schema inference and dynamic filters of the procurement dashboard.      *)
(*                                                                         *)
(*   utils/data_manager.py    detect_column_types                          *)
(*   utils/dynamic_filters.py generate_dynamic_filters                     *)
(*                                                                         *)
(* A dataset (pandas DataFrame) is a record                                *)
(*   [columns : sequence of columns, attrs : dictionary]                   *)
(* and a column is [name, dtype, vals].  A column name is the sequence of  *)
(* its characters, so that lower-casing and substring search are computed  *)
(* as the code computes them.  A cell is NaN or a positive integer: in a   *)
(* column of dtype "numeric" the integer is the number itself, in a column *)
(* of dtype "object" it is the rank of the string in lexicographic order   *)
(* (sorted() and == only look at that order): the strings of DateStrings   *)
(* are ISO dates ("2022-01-01" < "2023-12-31"), which sort before every    *)
(* word because digits sort before letters; all other ranks are words      *)
(* that pandas cannot parse as a date.                                     *)
(***************************************************************************)
EXTENDS Integers, Sequences, FiniteSets, TLC

(***************************************************************************)
(* Bounds of the model.                                                    *)
(***************************************************************************)
\* rows of a small dataset
MaxRows == 2
\* columns of a dataset cut out of DemoTable
MaxCols == 2
\* calls of detect_column_types in one session
MaxCalls == 2
\* largest max_filters argument (the default of generate_dynamic_filters)
MaxFilters == 3
\* entries of the filters argument of apply_filters
MaxSelections == 2

(***************************************************************************)
(* Column names.                                                           *)
(***************************************************************************)
SupplierID == <<"S","u","p","p","l","i","e","r","I","D">>
PaidAmount == <<"P","a","i","d","A","m","o","u","n","t">>
Holiday    == <<"H","o","l","i","d","a","y">>
UnitCost   == <<"U","n","i","t","C","o","s","t">>
Quantity   == <<"Q","u","a","n","t","i","t","y">>
OrderDate  == <<"O","r","d","e","r","D","a","t","e">>
Category   == <<"C","a","t","e","g","o","r","y">>
Comments   == <<"C","o","m","m","e","n","t","s">>
Supplier   == <<"S","u","p","p","l","i","e","r">>
Amount     == <<"A","m","o","u","n","t">>
Date       == <<"D","a","t","e">>
Country    == <<"C","o","u","n","t","r","y">>

\* the other columns of the upload templates
SubCategory == <<"S","u","b","C","a","t","e","g","o","r","y">>
BusinessUnit == <<"B","u","s","i","n","e","s","s","U","n","i","t">>
AnnualRevenue == <<"A","n","n","u","a","l","R","e","v","e","n","u","e">>
RelationshipStartDate == <<"R","e","l","a","t","i","o","n","s","h","i","p","S","t","a","r","t","D","a","t","e">>
City == <<"C","i","t","y">>
Active == <<"A","c","t","i","v","e">>
ContractID == <<"C","o","n","t","r","a","c","t","I","D">>
Value == <<"V","a","l","u","e">>
NoticePeriodDays == <<"N","o","t","i","c","e","P","e","r","i","o","d","D","a","y","s">>
StartDate == <<"S","t","a","r","t","D","a","t","e">>
EndDate == <<"E","n","d","D","a","t","e">>
Status == <<"S","t","a","t","u","s">>
AutoRenewal == <<"A","u","t","o","R","e","n","e","w","a","l">>
DeliveryScore == <<"D","e","l","i","v","e","r","y","S","c","o","r","e">>
QualityScore == <<"Q","u","a","l","i","t","y","S","c","o","r","e">>
ResponsivenessScore == <<"R","e","s","p","o","n","s","i","v","e","n","e","s","s","S","c","o","r","e">>
OverallScore == <<"O","v","e","r","a","l","l","S","c","o","r","e">>
Quarter == <<"Q","u","a","r","t","e","r">>

Period == <<"P","e","r","i","o","d">>
Period_end == <<"P","e","r","i","o","d","_","e","n","d">>

Names == {SupplierID, PaidAmount, Holiday, UnitCost, Quantity, OrderDate, Category}

(***************************************************************************)
(* str.lower() and the `in` operator on strings.                           *)
(***************************************************************************)
Range(s) == { s[k] : k \in 1..Len(s) }

UpperCase == <<"A","B","C","D","E","F","G","H","I","J","K","L","M",
               "N","O","P","Q","R","S","T","U","V","W","X","Y","Z">>
LowerCase == <<"a","b","c","d","e","f","g","h","i","j","k","l","m",
               "n","o","p","q","r","s","t","u","v","w","x","y","z">>

\* the lower-case letter of every upper-case letter
LowerOf == [ch \in Range(UpperCase) |->
              LowerCase[CHOOSE k \in 1..26 : UpperCase[k] = ch]]

LowerChar(ch) == IF ch \in DOMAIN LowerOf THEN LowerOf[ch] ELSE ch

\* col.lower()
Lower(s) == [k \in 1..Len(s) |-> LowerChar(s[k])]

\* t in s, for strings
Contains(s, t) ==
    \E k \in 0..(Len(s) - Len(t)) : \A j \in 1..Len(t) : s[k + j] = t[j]

ID_TERMS == { <<"i","d">>, <<"c","o","d","e">>, <<"n","u","m","b","e","r">>,
              <<"n","o",".">>, <<"k","e","y">> }

MONEY_TERMS == { <<"a","m","o","u","n","t">>, <<"p","r","i","c","e">>,
                 <<"c","o","s","t">>, <<"v","a","l","u","e">>,
                 <<"s","p","e","n","d">>, <<"b","u","d","g","e","t">>,
                 <<"r","e","v","e","n","u","e">> }

DATE_TERMS == { <<"d","a","t","e">>, <<"d","a","y">>, <<"m","o","n","t","h">>,
                <<"y","e","a","r">>, <<"t","i","m","e">>,
                <<"p","e","r","i","o","d">>, <<"q","u","a","r","t","e","r">> }

\* the identifier test without .lower(): "SupplierID" no longer matches
HasIdTermCaseSensitive(name) == \E t \in ID_TERMS : Contains(name, t)

\* any(id_term in col.lower() for id_term in [...])
HasIdTerm(name) == \E t \in ID_TERMS : Contains(Lower(name), t)

\* the monetary test without .lower(): "UnitCost" no longer matches
HasMoneyTermCaseSensitive(name) == \E t \in MONEY_TERMS : Contains(name, t)

\* any(money_term in col_name_lower for money_term in [...])
HasMoneyTerm(name) == \E t \in MONEY_TERMS : Contains(Lower(name), t)

\* any(date_term in col.lower() for date_term in [...])
HasDateTerm(name) == \E t \in DATE_TERMS : Contains(Lower(name), t)

(***************************************************************************)
(* Cells and series operations.                                            *)
(***************************************************************************)
\* the missing marker
NaN == -1

\* ranks of the strings that parse as dates
DateStrings == {1, 2}

\* the k-th word: the words follow the date strings in lexicographic order
Word(k) == Cardinality(DateStrings) + k

NotNa(v) == v # NaN

\* Series.dropna()
DropNa(vals) == SelectSeq(vals, NotNa)

\* Series.isna().all(): true of the empty series
IsAllMissing(vals) == \A k \in 1..Len(vals) : vals[k] = NaN

RECURSIVE Pick(_, _, _, _)
\* the elements of s at the positions of keep within lo..hi, in order
\* (the range is halved so that long series stay shallow)
Pick(s, keep, lo, hi) ==
    IF lo > hi THEN <<>>
    ELSE IF lo = hi THEN (IF lo \in keep THEN <<s[lo]>> ELSE <<>>)
    ELSE LET mid == (lo + hi) \div 2
         IN  Pick(s, keep, lo, mid) \o Pick(s, keep, mid + 1, hi)

AtIndexes(s, keep) == Pick(s, keep, 1, Len(s))

\* Series.unique().tolist(): the distinct values in order of first appearance
Unique(s) ==
    AtIndexes(s, { k \in 1..Len(s) : \A j \in 1..(k - 1) : s[j] # s[k] })

\* sorted(list): stable, the element at position a goes to place[a]
Sorted(s) ==
    LET place == [a \in 1..Len(s) |->
                    Cardinality({ b \in 1..Len(s) :
                                    s[b] < s[a] \/ (s[b] = s[a] /\ b < a) }) + 1]
    IN  [k \in 1..Len(s) |-> s[CHOOSE a \in 1..Len(s) : place[a] = k]]

\* the distinct non-missing values, left in order of first appearance
SortedUniqueUnsorted(vals) == Unique(DropNa(vals))

\* sorted(df[col].dropna().unique().tolist())
SortedUnique(vals) == Sorted(Unique(DropNa(vals)))

\* Series.nunique(): the number of distinct non-missing values
NUnique(vals) == Cardinality(Range(vals) \ {NaN})

\* the count of the missing values in place of the non-missing ones
NTotalCountsMissing(vals) == Len(vals) - Len(DropNa(vals))

\* len(df[col].dropna())
NTotal(vals) == Len(DropNa(vals))

(***************************************************************************)
(* The branches of the loop body of detect_column_types, first match wins. *)
(***************************************************************************)
\* pd.api.types.is_numeric_dtype(df[col])
IsNumericDtype(col) == col.dtype = "numeric"

\* date parsing that looks at the first value only
ToDatetimeRaisesFirstOnly(col) ==
    /\ col.dtype = "object"
    /\ DropNa(col.vals) # <<>>
    /\ DropNa(col.vals)[1] \notin DateStrings

\* pd.to_datetime(df[col]) raises: some non-missing string is no date
ToDatetimeRaises(col) ==
    /\ col.dtype = "object"
    /\ \E k \in 1..Len(col.vals) :
          col.vals[k] # NaN /\ col.vals[k] \notin DateStrings

\* if df[col].isna().all(): continue
SkipTaken(col) == IsAllMissing(col.vals)

\* the identifier branch and its continue
IdTaken(col) == ~SkipTaken(col) /\ HasIdTerm(col.name)

\* the numeric branch entered although the identifier branch was taken
NumericReachedNoContinue(col) == ~SkipTaken(col) /\ IsNumericDtype(col)

\* the numeric branch is reached after the two continues above it
NumericReached(col) == ~SkipTaken(col) /\ ~IdTaken(col) /\ IsNumericDtype(col)

MonetaryTaken(col) == NumericReached(col) /\ HasMoneyTerm(col.name)

NumericTaken(col) == NumericReached(col) /\ ~HasMoneyTerm(col.name)

\* the try block is reached
DateReached(col) == ~SkipTaken(col) /\ ~IdTaken(col) /\ ~NumericReached(col)

\* the date branch that never sees a parse failure
DateTakenNoParse(col) == DateReached(col) /\ HasDateTerm(col.name)

\* try: if <date term in name>: pd.to_datetime(df[col]); append; continue
\* except: pass
DateTaken(col) ==
    DateReached(col) /\ HasDateTerm(col.name) /\ ~ToDatetimeRaises(col)

\* the cardinality rule is reached
CardinalityReached(col) == DateReached(col) /\ ~DateTaken(col)

\* n_unique / n_total is evaluated (the `or` short-circuits) with n_total = 0
DivisionByZero(n_unique, n_total) == ~(n_unique <= 50) /\ n_total = 0

\* the threshold with < in place of <=
IsCategoricalStrict(n_unique, n_total) ==
    n_unique < 50 \/ (5 * n_unique <= n_total /\ n_unique <= 100)

\* n_unique <= 50 or (n_unique / n_total <= 0.2 and n_unique <= 100)
\* for n_total > 0, n_unique / n_total <= 0.2 iff 5 * n_unique <= n_total:
\* IEEE division is correctly rounded and the counts are far below 2^50
IsCategorical(n_unique, n_total) ==
    n_unique <= 50 \/ (5 * n_unique <= n_total /\ n_unique <= 100)

CategoricalTaken(col) ==
    /\ CardinalityReached(col)
    /\ ~DivisionByZero(NUnique(col.vals), NTotal(col.vals))
    /\ IsCategorical(NUnique(col.vals), NTotal(col.vals))

TextTaken(col) ==
    /\ CardinalityReached(col)
    /\ ~DivisionByZero(NUnique(col.vals), NTotal(col.vals))
    /\ ~IsCategorical(NUnique(col.vals), NTotal(col.vals))

\* the exception that leaves the loop body, "none" when it completes
BodyRaises(col) ==
    IF CardinalityReached(col)
       /\ DivisionByZero(NUnique(col.vals), NTotal(col.vals))
    THEN "ZeroDivisionError"
    ELSE "none"

(***************************************************************************)
(* Dictionaries (df.attrs, unique_values).                                 *)
(***************************************************************************)
EmptyDict == [k \in {} |-> 0]

\* d[key] = val
SetItem(d, key, val) ==
    [k \in (DOMAIN d) \cup {key} |-> IF k = key THEN val ELSE d[k]]

(***************************************************************************)
(* The datasets the model is run on.                                       *)
(***************************************************************************)
Dtypes == {"numeric", "object"}

SmallCells == {NaN, 1, 2, 3}

SmallSeries == UNION { [1..n -> SmallCells] : n \in 0..MaxRows }

\* the dtype pd.read_csv infers: a column without rows is object, a column
\* of missing values only is float64
InferredDtype(dtype, vals) ==
    IF vals = <<>> THEN "object"
    ELSE IF IsAllMissing(vals) THEN "numeric"
    ELSE dtype

\* every one-column dataset over the names, dtypes and small series
SingleColumnTables ==
    { << [name |-> nm, dtype |-> InferredDtype(dt, v), vals |-> v] >> :
        nm \in Names, dt \in Dtypes, v \in SmallSeries }

\* a table in the shape of the demo data: identifiers, money, dates that
\* parse and one that does not, repeated and missing values
DemoTable ==
    << [name |-> SupplierID, dtype |-> "numeric", vals |-> <<1, 2, 3, 4>>],
       [name |-> Category,   dtype |-> "object",  vals |-> <<Word(2), Word(1), NaN, Word(2)>>],
       [name |-> UnitCost,   dtype |-> "numeric", vals |-> <<7, 7, 9, NaN>>],
       [name |-> Quantity,   dtype |-> "numeric", vals |-> <<5, NaN, 5, 6>>],
       [name |-> OrderDate,  dtype |-> "object",  vals |-> <<2, 1, 1, Word(1)>>],
       [name |-> Comments,   dtype |-> "object",  vals |-> <<NaN, NaN, Word(3), Word(1)>>],
       [name |-> PaidAmount, dtype |-> "numeric", vals |-> <<NaN, 8, 8, 9>>],
       [name |-> Holiday,    dtype |-> "object",  vals |-> <<1, 1, 2, NaN>>] >>

DemoRows == 1..4

\* the columns cs and the rows rs of DemoTable, in table order
SubTable(cs, rs) ==
    LET picked == AtIndexes(DemoTable, cs)
    IN  [k \in 1..Len(picked) |->
            [name  |-> picked[k].name,
             dtype |-> InferredDtype(picked[k].dtype,
                                     AtIndexes(picked[k].vals, rs)),
             vals  |-> AtIndexes(picked[k].vals, rs)]]

DemoTables ==
    { SubTable(cs, rs) :
        cs \in { c \in SUBSET (1..Len(DemoTable)) :
                   Cardinality(c) >= 1 /\ Cardinality(c) <= MaxCols },
        rs \in { r \in SUBSET DemoRows : Cardinality(r) <= MaxRows } }

\* <<distinct values, non-missing rows, missing rows>> of a generated column
BulkShapes ==
    { <<50, 200, 0>>, <<51, 200, 0>>, <<51, 255, 0>>, <<60, 300, 0>>,
      <<60, 299, 1>>, <<100, 500, 3>>, <<101, 505, 0>> }

\* a text column of the given shape: the missing rows first, then the
\* distinct words in rotation
BulkTable(shape) ==
    << [name  |-> Category,
        dtype |-> "object",
        vals  |-> [k \in 1..(shape[2] + shape[3]) |->
                     IF k <= shape[3] THEN NaN
                     ELSE Word(((k - shape[3] - 1) % shape[1]) + 1)]] >>

BulkTables == { BulkTable(shape) : shape \in BulkShapes }

\* the end-to-end dataset: Supplier with 20 distinct values in 200 rows,
\* Category with 5, Amount from 100 to 50000, Date strings that parse
EndToEndTable ==
    << [name  |-> Supplier, dtype |-> "object",
        vals  |-> [k \in 1..200 |-> Word(((k - 1) % 20) + 1)]],
       [name  |-> Category, dtype |-> "object",
        vals  |-> [k \in 1..200 |-> Word(((k - 1) % 5) + 1)]],
       [name  |-> Amount, dtype |-> "numeric",
        vals  |-> [k \in 1..200 |-> 100 + ((k - 1) * 49900) \div 199]],
       [name  |-> Date, dtype |-> "object",
        vals  |-> [k \in 1..200 |-> IF k % 2 = 1 THEN 1 ELSE 2]] >>

\* two categorical columns, a date column and a numeric one
OrderingTable ==
    << [name |-> Category,  dtype |-> "object",  vals |-> <<Word(2), Word(1), NaN, Word(2)>>],
       [name |-> OrderDate, dtype |-> "object",  vals |-> <<2, 1, 1, NaN>>],
       [name |-> Quantity,  dtype |-> "numeric", vals |-> <<5, NaN, 5, 6>>],
       [name |-> Comments,  dtype |-> "object",  vals |-> <<NaN, NaN, Word(3), Word(1)>>] >>

\* max - min of the numeric columns below
RangeSizes == {0, 10, 11, 100, 101, 1000, 1001, 2500}

\* a numeric column of two rows for every range size
RangeTables ==
    { << [name |-> Quantity, dtype |-> "numeric", vals |-> <<lo, lo + r>>] >> :
        lo \in {0, 5}, r \in RangeSizes }

\* a supplier master file: 101 suppliers, each of its own category, in two
\* countries
MasterTable ==
    << [name  |-> SupplierID, dtype |-> "numeric",
        vals  |-> [k \in 1..101 |-> k]],
       [name  |-> Category, dtype |-> "object",
        vals  |-> [k \in 1..101 |-> Word(k)]],
       [name  |-> Country, dtype |-> "object",
        vals  |-> [k \in 1..101 |-> Word((k % 2) + 1)]] >>

\* a numeric column of nine distinct values and a missing one, and a
\* numeric column of ten distinct values
NineAndMissingTable ==
    << [name  |-> Quantity, dtype |-> "numeric",
        vals  |-> [k \in 1..10 |-> IF k = 10 THEN NaN ELSE k]],
       [name  |-> Amount, dtype |-> "numeric",
        vals  |-> [k \in 1..10 |-> 100 * k]] >>

\* spend lines: Category "A" is Word(1) and "B" is Word(2); amounts and
\* order dates, with missing cells
SpendTable ==
    << [name |-> Category,  dtype |-> "object",
        vals |-> <<Word(1), Word(1), Word(2), Word(1), NaN, Word(1)>>],
       [name |-> Amount,    dtype |-> "numeric",
        vals |-> <<50, 100, 150, NaN, 100, 150>>],
       [name |-> OrderDate, dtype |-> "object",
        vals |-> <<1, 2, 2, 1, NaN, 1>>] >>

\* the same columns without rows
NoRowsTable ==
    [k \in 1..Len(SpendTable) |->
        [name |-> SpendTable[k].name, dtype |-> "object", vals |-> <<>>]]

\* reporting periods: the column Period and a column whose name is the
\* name Period followed by _end
PeriodTable ==
    << [name |-> Period,     dtype |-> "object",
        vals |-> <<1, 2, 2, NaN>>],
       [name |-> Period_end, dtype |-> "object",
        vals |-> <<Word(1), Word(2), NaN, Word(1)>>] >>

\* the same file without the column Period
PeriodEndTable == Tail(PeriodTable)

ApplyTables == {SpendTable, NoRowsTable, PeriodTable, PeriodEndTable}

\* performance scores: the first score is the same on every row
ConstantFirstTable ==
    << [name |-> DeliveryScore, dtype |-> "numeric", vals |-> <<7, 7, 7>>],
       [name |-> QualityScore,  dtype |-> "numeric", vals |-> <<3, 8, NaN>>] >>

ScenarioTables ==
    {EndToEndTable, OrderingTable, MasterTable, NineAndMissingTable,
     ConstantFirstTable, PeriodTable, PeriodEndTable}
    \cup RangeTables

NRows(cols) == IF cols = <<>> THEN 0 ELSE Len(cols[1].vals)

ColumnNames(cols) == { cols[k].name : k \in 1..Len(cols) }

Reverse(s) == [k \in 1..Len(s) |-> s[Len(s) + 1 - k]]

\* other files of the same data: rows permuted, columns reordered, a column
\* removed, a column added
Variants(cols) ==
    { [k \in 1..Len(cols) |-> [cols[k] EXCEPT !.vals = Reverse(cols[k].vals)]],
      Reverse(cols) }
    \cup (IF Len(cols) >= 2 THEN {Tail(cols)} ELSE {})
    \cup (IF Comments \in ColumnNames(cols) \/ cols = <<>> THEN {}
          ELSE { Append(cols, [name  |-> Comments,
                               dtype |-> "object",
                               vals  |-> [k \in 1..NRows(cols) |-> Word(1)]]) })

(***************************************************************************)
(* State.                                                                  *)
(***************************************************************************)
VARIABLES
    df,               \* the DataFrame: [columns, attrs]
    pc,               \* "loaded" | "loop" | "returned" | "raised"
    idx,              \* position of `for col in df.columns`, from 1
    numeric_cols, date_cols, monetary_cols,
    categorical_cols, id_cols, text_cols,
    unique_values,    \* locals of detect_column_types
    raised,           \* the exception that left detect_column_types
    ret,              \* its return value
    before,           \* the DataFrame as it was when the call was entered
    prev,             \* the DataFrame of the previous completed call
    calls,            \* calls of detect_column_types so far
    g_pc,             \* generate_dynamic_filters: "idle" | "schema" |
                      \* "fallback" | "done" | "raised"
    columns,          \* its columns argument: [is_none, list]
    max_filters,      \* its max_filters argument
    filter_count, filters,
    cat_cols,         \* its locals
    g_kind,           \* the column_types list being walked
    g_idx,            \* the position in that list, from 1
    controls,         \* the widgets rendered so far, in order
    v_ret,            \* what validate_data returned: [is_valid, message, data]
    a_pc,             \* apply_filters: "idle" | "loop" | "returned" | "raised"
    selections,       \* its filters argument, in the order of the dict
    a_idx,            \* the position in filters.items(), from 1
    filtered_data,    \* its local DataFrame: [columns, index]
    a_raised,         \* the exception that left apply_filters
    a_ret,            \* the DataFrame it returned
    t_log,            \* the calls apply_filters(data, filters) a caller has
                      \* made: what it passed, what it got, and what its
                      \* two arguments are after the call
    t_trial,          \* the results of the ways of applying two mappings
    session,          \* st.session_state: the datasets and their descriptors
    enable_caching,   \* st.session_state.enable_caching, or Unset
    llm_provider,     \* the provider of get_llm_client(), or "None"
    llm_response_cache, \* st.session_state.llm_response_cache, or Unset
    api_key,          \* the key (or model path and name) entered for the provider
    l_first,          \* cache key -> the first provider result returned under caching
    l_last            \* the last call of analyze_text_with_llm

detectVars ==
    << df, pc, idx, numeric_cols, date_cols, monetary_cols, categorical_cols,
       id_cols, text_cols, unique_values, raised, ret, before, prev, calls >>

lists ==
    << numeric_cols, date_cols, monetary_cols, categorical_cols, id_cols,
       text_cols, unique_values >>

genVars ==
    << g_pc, columns, max_filters, filter_count, filters, cat_cols, g_kind,
       g_idx, controls >>

applyVars == << a_pc, selections, a_idx, filtered_data, a_raised, a_ret >>

callVars == << t_log, t_trial >>

llmVars == << enable_caching, llm_provider, llm_response_cache, api_key, l_first, l_last >>

restVars == << callVars, session, llmVars >>

vars == << detectVars, genVars, v_ret, applyVars, restVars >>

NoPrev == [set |-> FALSE]

\* columns=None
NoColumns == [is_none |-> TRUE, list |-> {}]

InitGenState ==
    /\ g_pc = "idle"
    /\ columns = NoColumns
    /\ max_filters = 0
    /\ filter_count = 0
    /\ filters = [k \in {} |-> 0]
    /\ cat_cols = <<>>
    /\ g_kind = "categorical"
    /\ g_idx = 0
    /\ controls = <<>>

\* validate_data has not been called
NotValidated == [is_valid |-> FALSE, message |-> "unset", data |-> "unset"]

\* no DataFrame yet
NoFrame == [columns |-> <<>>, index |-> <<>>]

InitApplyState ==
    /\ a_pc = "idle"
    /\ selections = <<>>
    /\ a_idx = 0
    /\ filtered_data = NoFrame
    /\ a_raised = "none"
    /\ a_ret = NoFrame

\* the four datasets of the session
StateVars == {"spend_data", "supplier_data", "contract_data", "performance_data"}

\* get_mock_spend_data() and the other three: two rows of a few of their
\* columns stand for the generated rows
MockData(state_var) ==
    [columns |->
        CASE state_var = "spend_data" ->
               << [name |-> Supplier, dtype |-> "object", vals |-> <<Word(1), Word(2)>>],
                  [name |-> Amount,   dtype |-> "numeric", vals |-> <<100, 250>>] >>
          [] state_var = "supplier_data" ->
               << [name |-> SupplierID, dtype |-> "object", vals |-> <<Word(1), Word(2)>>],
                  [name |-> Country,    dtype |-> "object", vals |-> <<Word(3), Word(3)>>] >>
          [] state_var = "contract_data" ->
               << [name |-> ContractID, dtype |-> "object", vals |-> <<Word(1), Word(2)>>],
                  [name |-> Value,      dtype |-> "numeric", vals |-> <<1000, 2000>>] >>
          [] state_var = "performance_data" ->
               << [name |-> SupplierID,   dtype |-> "object", vals |-> <<Word(1), Word(2)>>],
                  [name |-> OverallScore, dtype |-> "numeric", vals |-> <<7, 9>>] >>,
     attrs |-> EmptyDict]

\* st.session_state after the first run of the script: the keys are
\* <<state_var>>, <<state_var, "column_types">>, <<state_var, "unique_values">>
InitialSession == [key \in { <<v>> : v \in StateVars } |-> MockData(key[1])]

\* no trial made
NoTrial == [made |-> FALSE]

\* a key of st.session_state that is not set, and one that holds a value
Unset == [set |-> FALSE]
Stored(value) == [set |-> TRUE, value |-> value]

InitRestState ==
    /\ t_log = <<>>
    /\ t_trial = NoTrial
    /\ session = InitialSession
    /\ enable_caching = Unset
    /\ llm_provider = "None"
    /\ llm_response_cache = Unset
    /\ api_key = ""
    /\ l_first = EmptyDict
    /\ l_last = NoTrial

InitDetectState(cols) ==
    /\ df = [columns |-> cols, attrs |-> EmptyDict]
    /\ pc = "loaded"
    /\ idx = 0
    /\ numeric_cols = <<>>
    /\ date_cols = <<>>
    /\ monetary_cols = <<>>
    /\ categorical_cols = <<>>
    /\ id_cols = <<>>
    /\ text_cols = <<>>
    /\ unique_values = EmptyDict
    /\ raised = "none"
    /\ ret = "unset"
    /\ before = [columns |-> cols, attrs |-> EmptyDict]
    /\ prev = NoPrev
    /\ calls = 0
    /\ v_ret = NotValidated

(***************************************************************************)
(* detect_column_types                                                     *)
(***************************************************************************)
\* the call is entered: the containers are initialised
DetectEnter ==
    /\ pc \in {"loaded", "returned"}
    /\ v_ret.data # "None"
    /\ g_pc = "idle"
    /\ calls < MaxCalls
    /\ calls' = calls + 1
    /\ pc' = "loop"
    /\ idx' = 1
    /\ numeric_cols' = <<>>
    /\ date_cols' = <<>>
    /\ monetary_cols' = <<>>
    /\ categorical_cols' = <<>>
    /\ id_cols' = <<>>
    /\ text_cols' = <<>>
    /\ unique_values' = EmptyDict
    /\ raised' = "none"
    /\ ret' = "unset"
    /\ before' = df
    /\ prev' = IF pc = "returned"
               THEN [set |-> TRUE, columns |-> df.columns, attrs |-> df.attrs]
               ELSE prev
    /\ UNCHANGED << df, genVars, v_ret, restVars, applyVars >>

\* one iteration of `for col in df.columns`
DetectColumn ==
    /\ pc = "loop"
    /\ idx <= Len(df.columns)
    /\ LET col == df.columns[idx]
       IN  IF BodyRaises(col) # "none"
           THEN /\ pc' = "raised"
                /\ raised' = BodyRaises(col)
                /\ UNCHANGED << idx, lists >>
           ELSE /\ id_cols' = IF IdTaken(col)
                              THEN Append(id_cols, col.name) ELSE id_cols
                /\ monetary_cols' = IF MonetaryTaken(col)
                                    THEN Append(monetary_cols, col.name)
                                    ELSE monetary_cols
                /\ numeric_cols' = IF NumericTaken(col)
                                   THEN Append(numeric_cols, col.name)
                                   ELSE numeric_cols
                /\ date_cols' = IF DateTaken(col)
                                THEN Append(date_cols, col.name) ELSE date_cols
                /\ categorical_cols' = IF CategoricalTaken(col)
                                       THEN Append(categorical_cols, col.name)
                                       ELSE categorical_cols
                /\ unique_values' = IF CategoricalTaken(col)
                                    THEN SetItem(unique_values, col.name,
                                                 SortedUnique(col.vals))
                                    ELSE unique_values
                /\ text_cols' = IF TextTaken(col)
                                THEN Append(text_cols, col.name) ELSE text_cols
                /\ idx' = idx + 1
                /\ UNCHANGED << pc, raised >>
    /\ UNCHANGED << df, ret, before, prev, calls, genVars, v_ret, restVars, applyVars >>

\* the descriptor written as a column of the frame instead of its attrs
StoreAttrsAsColumn(d, column_types, uniq) ==
    [d EXCEPT !.columns =
        Append(@, [name |-> <<"c","o","l","u","m","n","_","t","y","p","e","s">>,
                   dtype |-> "object",
                   vals |-> [k \in 1..NRows(d.columns) |-> NaN]]),
              !.attrs = SetItem(SetItem(@, "column_types", column_types),
                                "unique_values", uniq)]

\* df.attrs['column_types'] = {...}; df.attrs['unique_values'] = unique_values
StoreAttrs(d, column_types, uniq) ==
    [d EXCEPT !.attrs = SetItem(SetItem(@, "column_types", column_types),
                                "unique_values", uniq)]

\* the loop is exhausted: the descriptor is stored and the call returns None
DetectStore ==
    /\ pc = "loop"
    /\ idx > Len(df.columns)
    /\ df' = StoreAttrs(df,
                        [numeric     |-> numeric_cols,
                         date        |-> date_cols,
                         monetary    |-> monetary_cols,
                         categorical |-> categorical_cols,
                         id          |-> id_cols,
                         text        |-> text_cols],
                        unique_values)
    /\ ret' = "None"
    /\ pc' = "returned"
    /\ UNCHANGED << idx, lists, raised, before, prev, calls, genVars, v_ret, restVars, applyVars >>

\* another file is read into a fresh DataFrame (load_data), to be analysed next
LoadVariant ==
    /\ pc = "returned"
    /\ v_ret.data # "None"
    /\ g_pc = "idle"
    /\ calls < MaxCalls
    /\ \E cols \in Variants(df.columns) :
          df' = [columns |-> cols, attrs |-> EmptyDict]
    /\ prev' = [set |-> TRUE, columns |-> df.columns, attrs |-> df.attrs]
    /\ pc' = "loaded"
    /\ UNCHANGED << idx, lists, raised, ret, before, calls, genVars, v_ret, restVars, applyVars >>

InitDetect ==
    \E cols \in SingleColumnTables \cup DemoTables \cup BulkTables :
        InitDetectState(cols) /\ InitGenState /\ InitApplyState /\ InitRestState

NextDetect == DetectEnter \/ DetectColumn \/ DetectStore \/ LoadVariant

SpecDetect == InitDetect /\ [][NextDetect]_vars

(***************************************************************************)
(* The sidebar of app.py: the upload handler stores the loaded dataset and *)
(* its descriptor in st.session_state, "Reset to Demo Data" stores the     *)
(* mock datasets.                                                          *)
(***************************************************************************)
\* one uploaded file whose name gives a data type: load_data has returned
\* the classified data, which is stored with its column_types and
\* unique_values under the keys of the state_var
Upload ==
    /\ pc = "returned"
    /\ \E state_var \in StateVars :
          session' =
            SetItem(SetItem(SetItem(session, <<state_var>>, df),
                            <<state_var, "column_types">>, df.attrs["column_types"]),
                    <<state_var, "unique_values">>, df.attrs["unique_values"])
    /\ UNCHANGED << detectVars, genVars, v_ret, applyVars, callVars, llmVars >>

\* the button "Reset to Demo Data": the four datasets are replaced by the
\* mock data, every other key of the session state is kept
ResetToDemo ==
    /\ session' = [key \in DOMAIN session |->
                     IF key \in { <<v>> : v \in StateVars }
                     THEN MockData(key[1]) ELSE session[key]]
    /\ UNCHANGED << detectVars, genVars, v_ret, applyVars, callVars, llmVars >>

InitSession ==
    \E cols \in ApplyTables :
        InitDetectState(cols) /\ InitGenState /\ InitApplyState /\ InitRestState

NextSession ==
    \/ DetectEnter \/ DetectColumn \/ DetectStore \/ LoadVariant
    \/ Upload \/ ResetToDemo

SpecSession == InitSession /\ [][NextSession]_vars

(***************************************************************************)
(* utils/llm_manager.py: the provider settings of the sidebar and          *)
(* analyze_text_with_llm with its response cache.                          *)
(***************************************************************************)
provider_options == {"None", "OpenAI API", "Anthropic API", "Local Model"}

\* the texts and cache keys a caller passes; NoKey is cache_key=None
Texts == {"", "text"}
NoKey == "None"
CacheKeys == {NoKey, "k1", "k2"}

\* what the call of the provider's client does: it returns one of these
\* results or raises
ProviderResults == {"result 1", "result 2"}
ProviderOutcomes == ProviderResults \cup {"raise"}
LocalPlaceholder == "Local model analysis not yet implemented"

\* st.session_state.get(name, default)
Get(entry, default) == IF entry.set THEN entry.value ELSE default

\* get_llm_client(): the provider of the configuration, or "None" when no
\* provider is selected, its key is empty or its client cannot be made
get_llm_client(init_ok) ==
    IF llm_provider = "None" \/ api_key = "" THEN "None"
    ELSE IF llm_provider = "Local Model" THEN "local"
    ELSE IF ~init_ok THEN "None"
    ELSE IF llm_provider = "OpenAI API" THEN "openai" ELSE "anthropic"

\* `st.session_state.get("enable_caching", True) and cache_key`
Caching(cache_key) == Get(enable_caching, TRUE) /\ cache_key # NoKey

\* a lookup that never finds the key
CachedNever(cache_key) == FALSE

\* `cache_key in cache_dict`, under the test of Caching
Cached(cache_key) ==
    Caching(cache_key) /\ cache_key \in DOMAIN Get(llm_response_cache, EmptyDict)

\* analyze_text_with_llm(text, prompt_template, cache_key): what it returns,
\* whether it called the provider, whether that call raised, and the cache
\* it leaves
Analyzed(text, cache_key, init_ok, outcome) ==
    LET provider == get_llm_client(init_ok)
        Kept(answer) == [called |-> FALSE, raised |-> FALSE, ret |-> answer,
                         cache |-> llm_response_cache]
        result == IF provider = "local" THEN LocalPlaceholder ELSE outcome
    IN  IF text = ""
        THEN Kept("No text provided for analysis")
        ELSE IF provider = "None"
        THEN Kept("LLM not configured. Please set up an AI provider in the sidebar.")
        ELSE IF Cached(cache_key)
        THEN Kept(llm_response_cache.value[cache_key])
        ELSE IF provider # "local" /\ outcome = "raise"
        THEN [called |-> TRUE, raised |-> TRUE, cache |-> llm_response_cache,
              ret |-> "Error using LLM for analysis"]
        ELSE [called |-> provider # "local", raised |-> FALSE, ret |-> result,
              cache |-> IF Caching(cache_key)
                        THEN Stored(SetItem(Get(llm_response_cache, EmptyDict),
                                            cache_key, result))
                        ELSE llm_response_cache]

\* render_llm_config_sidebar: the provider and its key are stored as
\* selected; the caching checkbox is drawn, and stored, only for a provider
\* other than "None"
Configure ==
    /\ \E provider \in provider_options, key \in {"", "key"}, checked \in BOOLEAN :
          /\ llm_provider' = provider
          /\ api_key' = IF provider = "None" THEN api_key ELSE key
          /\ enable_caching' = IF provider = "None" THEN enable_caching
                               ELSE Stored(checked)
    /\ UNCHANGED << llm_response_cache, l_first, l_last >>
    /\ UNCHANGED << detectVars, genVars, v_ret, applyVars, callVars, session >>

\* one call of analyze_text_with_llm
Analyze ==
    /\ \E text \in Texts, cache_key \in CacheKeys, init_ok \in BOOLEAN,
          outcome \in ProviderOutcomes :
          LET call == Analyzed(text, cache_key, init_ok, outcome)
              produced == text # "" /\ get_llm_client(init_ok) # "None"
                          /\ ~Cached(cache_key) /\ ~call.raised
          IN  /\ llm_response_cache' = call.cache
              /\ l_last' = [made |-> TRUE, text |-> text, cache_key |-> cache_key,
                            caching |-> Get(enable_caching, TRUE),
                            configured |-> get_llm_client(init_ok) # "None",
                            called |-> call.called, raised |-> call.raised,
                            produced |-> produced, ret |-> call.ret,
                            cache_before |-> llm_response_cache,
                            cache_after |-> call.cache,
                            first_before |-> l_first]
              /\ l_first' = IF produced /\ Caching(cache_key)
                               /\ cache_key \notin DOMAIN l_first
                            THEN SetItem(l_first, cache_key, call.ret)
                            ELSE l_first
    /\ UNCHANGED << enable_caching, llm_provider, api_key >>
    /\ UNCHANGED << detectVars, genVars, v_ret, applyVars, callVars, session >>

InitLLM ==
    InitDetectState(SpendTable) /\ InitGenState /\ InitApplyState /\ InitRestState

NextLLM == Configure \/ Analyze

SpecLLM == InitLLM /\ [][NextLLM]_vars

(***************************************************************************)
(* validate_data: the file is loaded (load_data, which classifies it),     *)
(* checked against the schema of its data type, converted and annotated.   *)
(***************************************************************************)
DataTypes ==
    {"Spend Data", "Supplier Master Data", "Contract Data", "Performance Data"}

schemas ==
    [data_type \in DataTypes |->
        CASE data_type = "Spend Data" ->
               [required    |-> <<Supplier, Category>>,
                numeric     |-> <<Amount>>,
                date        |-> <<Date>>,
                categorical |-> <<Supplier, Category, SubCategory, BusinessUnit>>]
          [] data_type = "Supplier Master Data" ->
               [required    |-> <<SupplierID>>,
                numeric     |-> <<AnnualRevenue>>,
                date        |-> <<RelationshipStartDate>>,
                categorical |-> <<Category, Country, City, Active>>]
          [] data_type = "Contract Data" ->
               [required    |-> <<ContractID>>,
                numeric     |-> <<Value, NoticePeriodDays>>,
                date        |-> <<StartDate, EndDate>>,
                categorical |-> <<Status, AutoRenewal>>]
          [] data_type = "Performance Data" ->
               [required    |-> <<SupplierID>>,
                numeric     |-> <<DeliveryScore, QualityScore,
                                  ResponsivenessScore, OverallScore>>,
                date        |-> <<>>,
                categorical |-> <<Quarter>>]]

\* the list as it is, whatever the columns of the data
PresentOrNot(list, cols) == list

\* [col for col in list if col in data.columns]
Present(list, cols) ==
    AtIndexes(list, { k \in 1..Len(list) : list[k] \in ColumnNames(cols) })

\* pd.to_numeric(data[col]) raises: a string that is no number (the strings
\* of the model are dates and words)
ToNumericRaises(col) == col.dtype = "object" /\ ~IsAllMissing(col.vals)

\* data[col] = pd.to_numeric(data[col]) or pd.to_datetime(data[col]), for
\* every column of the list
Converted(cols, names, dtype) ==
    [k \in 1..Len(cols) |->
        IF cols[k].name \in Range(names)
        THEN [cols[k] EXCEPT !.dtype = dtype] ELSE cols[k]]

\* data['Supplier'].isnull().sum() > 0
NullSuppliers(cols) ==
    \E k \in 1..Len(cols) :
        cols[k].name = Supplier /\ \E r \in 1..Len(cols[k].vals) : cols[k].vals[r] = NaN

\* sorted(data[col].unique().tolist()) raises: a missing value (a float)
\* is compared with a string
SortedAllRaises(col) ==
    /\ col.dtype = "object"
    /\ \E r \in 1..Len(col.vals) : col.vals[r] = NaN
    /\ \E r \in 1..Len(col.vals) : col.vals[r] # NaN

\* sorted(data[col].unique().tolist()): missing values are kept (where nan
\* lands among numbers is left to the sort; no categorical column of the
\* datasets of the model holds both)
SortedAll(vals) == Sorted(Unique(vals))

Invalid(msg) == [is_valid |-> FALSE, message |-> msg, data |-> "None"]

\* data.attrs["schema"], ["unique_values"] and ["column_types"]
Annotated(cols, attrs, schema) ==
    LET cats == Present(schema.categorical, cols)
        uniq == [name \in Range(schema.categorical) \cap ColumnNames(cols) |->
                   SortedAll((CHOOSE c \in Range(cols) : c.name = name).vals)]
    IN  SetItem(SetItem(SetItem(attrs, "schema", schema),
                        "unique_values", uniq),
                "column_types",
                [numeric     |-> Present(schema.numeric, cols),
                 date        |-> Present(schema.date, cols),
                 categorical |-> cats])

\* the return value of validate_data(file, data_type), and the DataFrame it
\* returns when the file is valid
Validated(d, ext, data_type) ==
    IF ext \notin {"csv", "xlsx"}
    THEN [ret |-> Invalid("Unsupported file type"), data |-> d]
    ELSE IF data_type \notin DataTypes
    THEN [ret |-> Invalid("Unknown data type"), data |-> d]
    ELSE
    LET schema == schemas[data_type]
        num == Converted(d.columns, schema.numeric, "numeric")
        dat == Converted(num, schema.date, "datetime")
    IN  IF \E name \in Range(schema.required) : name \notin ColumnNames(d.columns)
        THEN [ret |-> Invalid("Missing required columns"), data |-> d]
        ELSE IF \E c \in Range(d.columns) :
                   c.name \in Range(schema.numeric) /\ ToNumericRaises(c)
        THEN [ret |-> Invalid("must contain numeric values"), data |-> d]
        ELSE IF \E c \in Range(num) :
                   c.name \in Range(schema.date) /\ ToDatetimeRaises(c)
        THEN [ret |-> Invalid("must contain valid dates"), data |-> d]
        ELSE IF data_type = "Spend Data" /\ NullSuppliers(dat)
        THEN [ret |-> Invalid("missing supplier information"), data |-> d]
        ELSE IF \E c \in Range(dat) :
                   c.name \in Range(schema.categorical) /\ SortedAllRaises(c)
        THEN [ret |-> Invalid("Error during validation"), data |-> d]
        ELSE [ret  |-> [is_valid |-> TRUE,
                        message  |-> <<data_type, "validated successfully">>,
                        data     |-> "data"],
              data |-> [columns |-> dat,
                        attrs   |-> Annotated(dat, d.attrs, schema)]]

\* validate_data(file, data_type) on the file the frame was loaded from
ValidateData ==
    /\ pc = "returned"
    /\ g_pc = "idle"
    /\ v_ret = NotValidated
    /\ \E ext \in {"csv", "xlsx", "txt"}, data_type \in DataTypes \cup {"Other Data"} :
          /\ v_ret' = Validated(df, ext, data_type).ret
          /\ df' = Validated(df, ext, data_type).data
    /\ UNCHANGED << pc, idx, lists, raised, ret, before, prev, calls, genVars,
                    applyVars, restVars >>

(***************************************************************************)
(* Vocabulary of the properties, stated on the stored descriptor and the   *)
(* cells of the frame rather than on the branches above.                   *)
(***************************************************************************)
Kinds == {"id", "numeric", "monetary", "date", "categorical", "text"}

Occurs(list, name) == Cardinality({ j \in 1..Len(list) : list[j] = name })

\* the kinds whose list holds the name
KindsOf(column_types, name) ==
    { kd \in Kinds : Occurs(column_types[kd], name) > 0 }

\* how often the name is listed, over the six lists
Listed(column_types, name) ==
    Occurs(column_types["id"], name) + Occurs(column_types["numeric"], name)
    + Occurs(column_types["monetary"], name) + Occurs(column_types["date"], name)
    + Occurs(column_types["categorical"], name) + Occurs(column_types["text"], name)

NameHasAny(name, terms) == \E t \in terms : Contains(Lower(name), t)

HasValue(col) == \E k \in 1..Len(col.vals) : col.vals[k] # NaN

AllParse(col) ==
    \A k \in 1..Len(col.vals) : col.vals[k] # NaN => col.vals[k] \in DateStrings

Distinct(col) == Cardinality({ col.vals[k] : k \in 1..Len(col.vals) } \ {NaN})

NonMissing(col) == Cardinality({ k \in 1..Len(col.vals) : col.vals[k] # NaN })

Returned == pc = "returned"

Cols == { df.columns[k] : k \in 1..Len(df.columns) }

\* the column reaches the cardinality rule
ReachesCardinality(col) ==
    /\ HasValue(col)
    /\ ~NameHasAny(col.name, ID_TERMS)
    /\ col.dtype = "object"
    /\ ~(NameHasAny(col.name, DATE_TERMS) /\ AllParse(col))

\* s and t hold the same values the same number of times
SameBag(s, t) ==
    /\ Len(s) = Len(t)
    /\ \A v \in Range(s) \cup Range(t) : Occurs(s, v) = Occurs(t, v)

(***************************************************************************)
(* C1..C9: detect_column_types                                             *)
(***************************************************************************)
\* C1: after detect_column_types the six lists are pairwise disjoint, a
\* column with a non-missing value is in exactly one of them, a column whose
\* values are all missing is in none, and nothing else is listed.
C1_ExactlyOneList ==
    Returned =>
        /\ \A col \in Cols :
              Listed(df.attrs["column_types"], col.name)
                  = (IF HasValue(col) THEN 1 ELSE 0)
        /\ \A kd \in Kinds :
              Range(df.attrs["column_types"][kd]) \subseteq ColumnNames(df.columns)

C1_Witness ==
    /\ Returned
    /\ \E a \in Cols, b \in Cols :
          /\ ~HasValue(a) /\ Len(a.vals) > 0
          /\ HasValue(b) /\ b.dtype = "numeric"
          /\ KindsOf(df.attrs["column_types"], b.name) = {"id"}

\* C2: first match wins: a column with a non-missing value whose lower-cased
\* name contains id, code, number, no. or key is an Identifier whatever its
\* dtype, its monetary or date tokens and its distinct values; an all-missing
\* column is skipped before that.
C2_IdentifierFirst ==
    Returned =>
        \A col \in Cols :
            NameHasAny(col.name, ID_TERMS) =>
                KindsOf(df.attrs["column_types"], col.name)
                    = (IF HasValue(col) THEN {"id"} ELSE {})

C2_Witness ==
    /\ Returned
    /\ \E a \in Cols, b \in Cols :
          /\ a.name = PaidAmount /\ a.dtype = "numeric"
          /\ b.name = Holiday /\ b.dtype = "object" /\ AllParse(b)
          /\ KindsOf(df.attrs["column_types"], a.name) = {"id"}
          /\ KindsOf(df.attrs["column_types"], b.name) = {"id"}

\* C3 as claimed: every numeric-typed column without identifier token is
\* Monetary when its name holds a monetary token and Numeric otherwise.
C3_AsClaimed ==
    Returned =>
        \A col \in Cols :
            (col.dtype = "numeric" /\ ~NameHasAny(col.name, ID_TERMS)) =>
                KindsOf(df.attrs["column_types"], col.name)
                    = (IF NameHasAny(col.name, MONEY_TERMS)
                       THEN {"monetary"} ELSE {"numeric"})

\* C3: a numeric-typed column with at least one non-missing value and no
\* identifier token is Monetary when its lower-cased name holds a monetary
\* token and Numeric otherwise (numeric UnitCost is Monetary, numeric
\* Quantity is Numeric), never Date, Categorical or Text; when all its values
\* are missing it gets no classification.
C3_MonetaryOrNumeric ==
    Returned =>
        \A col \in Cols :
            (col.dtype = "numeric" /\ ~NameHasAny(col.name, ID_TERMS)) =>
                /\ KindsOf(df.attrs["column_types"], col.name)
                     = (IF ~HasValue(col) THEN {}
                        ELSE IF NameHasAny(col.name, MONEY_TERMS)
                        THEN {"monetary"} ELSE {"numeric"})
                /\ (col.name = UnitCost /\ HasValue(col)) =>
                      Occurs(df.attrs["column_types"]["monetary"], UnitCost) = 1
                /\ (col.name \in {Quantity, OrderDate} /\ HasValue(col)) =>
                      Occurs(df.attrs["column_types"]["numeric"], col.name) = 1

C3_Witness ==
    /\ Returned
    /\ \E a \in Cols, b \in Cols :
          /\ a.name = UnitCost /\ a.dtype = "numeric"
          /\ b.name = Quantity /\ b.dtype = "numeric"
          /\ KindsOf(df.attrs["column_types"], a.name) = {"monetary"}
          /\ KindsOf(df.attrs["column_types"], b.name) = {"numeric"}

\* C4: a column without identifier token and not numeric is a Date only if
\* its name holds a date token and every non-missing value parses; when the
\* name matches and parsing fails the column goes to Categorical or Text,
\* no exception leaves detect_column_types and every other column with a
\* value is still classified.
C4_DateOnlyIfParses ==
    /\ pc # "raised"
    /\ Returned =>
         \A col \in Cols :
            (col.dtype = "object" /\ ~NameHasAny(col.name, ID_TERMS)) =>
                /\ "date" \in KindsOf(df.attrs["column_types"], col.name) =>
                      (NameHasAny(col.name, DATE_TERMS) /\ AllParse(col))
                /\ (NameHasAny(col.name, DATE_TERMS) /\ ~AllParse(col)) =>
                      /\ KindsOf(df.attrs["column_types"], col.name)
                            \in {{"categorical"}, {"text"}}
                      /\ \A other \in Cols :
                            HasValue(other) =>
                                KindsOf(df.attrs["column_types"], other.name) # {}

C4_Witness ==
    /\ Returned
    /\ \E j \in 1..Len(df.columns), k \in 1..Len(df.columns) :
          /\ j < k
          /\ df.columns[j].name = OrderDate
          /\ df.columns[j].dtype = "object"
          /\ ~AllParse(df.columns[j])
          /\ KindsOf(df.attrs["column_types"], OrderDate) = {"categorical"}
          /\ KindsOf(df.attrs["column_types"], df.columns[k].name) # {}

\* C5: a column that reaches the cardinality rule is Categorical exactly when
\* nUnique <= 50 or (nUnique/nTotal <= 0.2 and nUnique <= 100), counted over
\* the non-missing values, and Text otherwise; 50 distinct values in 200 rows
\* is Categorical, 51 in 200 is Text.
C5_CardinalityRule ==
    Returned =>
        \A col \in Cols :
            ReachesCardinality(col) =>
                /\ KindsOf(df.attrs["column_types"], col.name)
                     = (IF Distinct(col) <= 50
                           \/ (5 * Distinct(col) <= NonMissing(col)
                               /\ Distinct(col) <= 100)
                        THEN {"categorical"} ELSE {"text"})
                /\ (Distinct(col) = 50 /\ NonMissing(col) = 200) =>
                      KindsOf(df.attrs["column_types"], col.name) = {"categorical"}
                /\ (Distinct(col) = 51 /\ NonMissing(col) = 200) =>
                      KindsOf(df.attrs["column_types"], col.name) = {"text"}

C5_Witness ==
    /\ Returned
    /\ \E col \in Cols :
          /\ ReachesCardinality(col)
          /\ Distinct(col) = 51 /\ NonMissing(col) = 200
          /\ KindsOf(df.attrs["column_types"], col.name) = {"text"}

\* C6: detect_column_types never divides by zero: no ZeroDivisionError
\* leaves it, zero-row frames and all-missing columns included.
C6_NoDivisionByZero == raised # "ZeroDivisionError" /\ pc # "raised"

C6_Witness ==
    /\ Returned
    /\ \E col \in Cols :
          /\ ReachesCardinality(col)
          /\ Distinct(col) > 50
          /\ KindsOf(df.attrs["column_types"], col.name) = {"categorical"}

\* C7: the keys of unique_values are exactly the Categorical columns, and
\* each list is the ascending, duplicate-free list of the column's
\* non-missing values.
C7_UniqueValues ==
    Returned =>
        /\ DOMAIN df.attrs["unique_values"]
             = Range(df.attrs["column_types"]["categorical"])
        /\ \A col \in Cols :
              col.name \in DOMAIN df.attrs["unique_values"] =>
                 LET u == df.attrs["unique_values"][col.name]
                 IN  /\ \A k \in 1..(Len(u) - 1) : u[k] < u[k + 1]
                     /\ Range(u) = Range(col.vals) \ {NaN}

C7_Witness ==
    /\ Returned
    /\ \E col \in Cols :
          /\ col.name \in DOMAIN df.attrs["unique_values"]
          /\ Len(col.vals) >= 2
          /\ col.vals[1] # NaN /\ col.vals[2] # NaN
          /\ col.vals[1] > col.vals[2]
    /\ \E col \in Cols : col.name \notin DOMAIN df.attrs["unique_values"]

Empty(d) == Len(d.columns) = 0 \/ NRows(d.columns) = 0

\* dict.get(key, default)
GetOr(d, key, default) == IF key \in DOMAIN d THEN d[key] ELSE default

\* the eligibility test left out: every column is eligible
EligibleInAny(given, col) == TRUE

\* not (columns is not None and col not in columns)
EligibleIn(given, col) == given.is_none \/ col \in given.list

Eligible(col) == EligibleIn(columns, col)

\* the budget test with > in place of >=
BudgetExhaustedOffByOne(count, limit) == count > limit

\* if filter_count >= max_filters: break
BudgetExhausted(count, limit) == count >= limit

HasColumn(d, name) == name \in ColumnNames(d.columns)

\* data[col]
ColumnOf(d, name) ==
    d.columns[CHOOSE k \in 1..Len(d.columns) : d.columns[k].name = name]

\* unique_values[col] if stored, else recomputed from the frame
CategoricalValues(d, uniq, col) ==
    IF col \in DOMAIN uniq THEN uniq[col]
    ELSE SortedUnique(ColumnOf(d, col).vals)

\* the option f"All {col}" of a selectbox
AllOption == 0

\* the options a user picks in the model: "All", the first and the last value
Picks(values) ==
    {AllOption} \cup { values[k] : k \in {1, Len(values)} \cap (1..Len(values)) }

\* Series.min() and Series.max() over the non-missing values
MinOf(vals) ==
    CHOOSE v \in Range(vals) \ {NaN} : \A w \in Range(vals) \ {NaN} : v <= w

MaxOf(vals) ==
    CHOOSE v \in Range(vals) \ {NaN} : \A w \in Range(vals) \ {NaN} : v >= w

\* the suffixes of the keys of the returned mapping
SuffixMin   == <<"_","m","i","n">>
SuffixMax   == <<"_","m","a","x">>
SuffixStart == <<"_","s","t","a","r","t">>
SuffixEnd   == <<"_","e","n","d">>

\* the step with >= in place of >: the boundaries fall in the upper bucket
SliderStepInclusive(range_size) ==
    IF range_size >= 1000 THEN <<range_size, 100>>
    ELSE IF range_size >= 100 THEN <<1, 1>>
    ELSE IF range_size >= 10 THEN <<1, 10>>
    ELSE <<1, 100>>

\* the step of the slider as a fraction <<numerator, denominator>>
SliderStep(range_size) ==
    IF range_size > 1000 THEN <<range_size, 100>>
    ELSE IF range_size > 100 THEN <<1, 1>>
    ELSE IF range_size > 10 THEN <<1, 10>>
    ELSE <<1, 100>>

\* data[col].min().date() raises (caught): no such column, values that are
\* no timestamps, or no value at all
DateBoundsRaise(d, col) ==
    \/ ~HasColumn(d, col)
    \/ ColumnOf(d, col).dtype # "datetime"
    \/ IsAllMissing(ColumnOf(d, col).vals)

\* float(data[col].min()) or st.slider raises (caught): no such column,
\* strings, or NaN bounds
NumericBoundsRaise(d, col) ==
    \/ ~HasColumn(d, col)
    \/ ColumnOf(d, col).dtype # "numeric"
    \/ IsAllMissing(ColumnOf(d, col).vals)

\* the test that lets every column through
HasRangeAlways(lo, hi) == TRUE

\* if min_val != max_val, if min_date != max_date
HasRange(lo, hi) == lo # hi

\* the ranges a user selects in the model, within min..max
Ranges(lo, hi) == { <<lo, hi>>, <<lo, lo>>, <<hi, hi>> }

\* the lists with the monetary columns walked after the numeric ones
KindListWithMonetary(kind) ==
    GetOr(df.attrs["column_types"], kind, <<>>)
    \o (IF kind = "numeric"
        THEN GetOr(df.attrs["column_types"], "monetary", <<>>) ELSE <<>>)

\* column_types.get(kind, [])
KindList(kind) == GetOr(df.attrs["column_types"], kind, <<>>)

\* cat_cols[:max_filters], max_filters >= 0
Take(s, n) == SubSeq(s, 1, IF n < Len(s) THEN n ELSE Len(s))

\* the candidates of the fallback mode, in frame order
FallbackColumns(d, given) ==
    LET ok == { k \in 1..Len(d.columns) :
                  /\ EligibleIn(given, d.columns[k].name)
                  /\ \/ d.columns[k].dtype = "object"
                     \/ Cardinality(Range(d.columns[k].vals)) < 10 }
        picked == AtIndexes(d.columns, ok)
    IN  [k \in 1..Len(picked) |-> picked[k].name]

\* the call is entered with its arguments
GenEnter ==
    /\ g_pc = "idle"
    /\ v_ret.data # "None"
    /\ pc \in {"loaded", "returned"}
    /\ \E cs \in {NoColumns} \cup
                 { [is_none |-> FALSE, list |-> l] :
                     l \in SUBSET ColumnNames(df.columns) },
          mf \in 0..MaxFilters :
          /\ columns' = cs
          /\ max_filters' = mf
    /\ filters' = EmptyDict
    /\ filter_count' = 0
    /\ controls' = <<>>
    /\ g_kind' = "categorical"
    /\ g_idx' = 1
    /\ IF Empty(df)
       THEN g_pc' = "done" /\ cat_cols' = <<>>
       ELSE IF "column_types" \in DOMAIN df.attrs
       THEN g_pc' = "schema" /\ cat_cols' = <<>>
       ELSE /\ g_pc' = "fallback"
            /\ cat_cols' = FallbackColumns(df, columns')
    /\ UNCHANGED << detectVars, v_ret, restVars, applyVars >>

\* one iteration of a loop over a column_types list that does not break
GenColumn ==
    /\ g_pc = "schema"
    /\ g_idx <= Len(KindList(g_kind))
    /\ LET col == KindList(g_kind)[g_idx]
           uniq == GetOr(df.attrs, "unique_values", EmptyDict)
       IN  IF ~Eligible(col)
           THEN /\ g_idx' = g_idx + 1
                /\ UNCHANGED << g_pc, filter_count, filters, controls >>
           ELSE
           /\ ~BudgetExhausted(filter_count, max_filters)
           /\ g_idx' = g_idx + 1
           /\ CASE g_kind = "categorical" ->
                   IF col \notin DOMAIN uniq /\ ~HasColumn(df, col)
                   THEN /\ g_pc' = "raised"
                        /\ UNCHANGED << filter_count, filters, controls >>
                   ELSE IF Len(CategoricalValues(df, uniq, col)) <= 100
                   THEN /\ controls' = Append(controls,
                                             [widget |-> "selectbox",
                                              col    |-> col,
                                              count  |-> filter_count])
                        /\ \E selected \in Picks(CategoricalValues(df, uniq, col)) :
                              filters' = IF selected # AllOption
                                         THEN SetItem(filters, col, selected)
                                         ELSE filters
                        /\ filter_count' = filter_count + 1
                        /\ UNCHANGED g_pc
                   ELSE UNCHANGED << g_pc, filter_count, filters, controls >>
                [] g_kind = "datetime" ->
                   IF DateBoundsRaise(df, col)
                   THEN UNCHANGED << g_pc, filter_count, filters, controls >>
                   ELSE LET min_date == MinOf(ColumnOf(df, col).vals)
                            max_date == MaxOf(ColumnOf(df, col).vals)
                        IN  IF HasRange(min_date, max_date)
                            THEN /\ controls' = Append(controls,
                                                  [widget |-> "date_input",
                                                   col    |-> col,
                                                   count  |-> filter_count])
                                 /\ \/ \E r \in Ranges(min_date, max_date) :
                                          filters' =
                                            SetItem(SetItem(filters,
                                                            col \o SuffixStart, r[1]),
                                                    col \o SuffixEnd, r[2])
                                    \/ filters' = filters
                                 /\ filter_count' = filter_count + 1
                                 /\ UNCHANGED g_pc
                            ELSE UNCHANGED << g_pc, filter_count, filters, controls >>
                [] g_kind = "numeric" ->
                   IF NumericBoundsRaise(df, col)
                   THEN UNCHANGED << g_pc, filter_count, filters, controls >>
                   ELSE LET min_val == MinOf(ColumnOf(df, col).vals)
                            max_val == MaxOf(ColumnOf(df, col).vals)
                        IN  IF HasRange(min_val, max_val)
                            THEN /\ controls' = Append(controls,
                                                  [widget |-> "slider",
                                                   col    |-> col,
                                                   count  |-> filter_count,
                                                   step   |-> SliderStep(max_val - min_val)])
                                 /\ \E r \in Ranges(min_val, max_val) :
                                       filters' =
                                         IF r[1] > min_val \/ r[2] < max_val
                                         THEN SetItem(SetItem(filters,
                                                              col \o SuffixMin, r[1]),
                                                      col \o SuffixMax, r[2])
                                         ELSE filters
                                 /\ filter_count' = filter_count + 1
                                 /\ UNCHANGED g_pc
                            ELSE UNCHANGED << g_pc, filter_count, filters, controls >>
    /\ UNCHANGED << detectVars, v_ret, restVars, applyVars, columns, max_filters, cat_cols, g_kind >>

\* a loop ends, by exhaustion or by break: the next list, or return filters
GenNextKind ==
    /\ g_pc = "schema"
    /\ \/ g_idx > Len(KindList(g_kind))
       \/ /\ g_idx <= Len(KindList(g_kind))
          /\ Eligible(KindList(g_kind)[g_idx])
          /\ BudgetExhausted(filter_count, max_filters)
    /\ IF g_kind = "categorical"
       THEN g_kind' = "datetime" /\ g_idx' = 1 /\ UNCHANGED g_pc
       ELSE IF g_kind = "datetime"
       THEN g_kind' = "numeric" /\ g_idx' = 1 /\ UNCHANGED g_pc
       ELSE g_pc' = "done" /\ UNCHANGED << g_kind, g_idx >>
    /\ UNCHANGED << detectVars, v_ret, restVars, applyVars, columns, max_filters, filter_count, filters,
                    cat_cols, controls >>

\* one iteration of `for col in cat_cols[:max_filters]`
GenFallbackColumn ==
    /\ g_pc = "fallback"
    /\ g_idx <= Len(Take(cat_cols, max_filters))
    /\ LET col == Take(cat_cols, max_filters)[g_idx]
           values == SortedUnique(ColumnOf(df, col).vals)
       IN  IF Len(values) <= 100
           THEN /\ controls' = Append(controls,
                                      [widget |-> "selectbox",
                                       col    |-> col,
                                       count  |-> filter_count])
                /\ \E selected \in Picks(values) :
                      filters' = IF selected # AllOption
                                 THEN SetItem(filters, col, selected)
                                 ELSE filters
           ELSE UNCHANGED << filters, controls >>
    /\ g_idx' = g_idx + 1
    /\ UNCHANGED << detectVars, v_ret, restVars, applyVars, g_pc, columns, max_filters, filter_count,
                    cat_cols, g_kind >>

\* return filters, in the fallback mode
GenFallbackReturn ==
    /\ g_pc = "fallback"
    /\ g_idx > Len(Take(cat_cols, max_filters))
    /\ g_pc' = "done"
    /\ UNCHANGED << detectVars, v_ret, restVars, applyVars, columns, max_filters, filter_count, filters,
                    cat_cols, g_kind, g_idx, controls >>

InitFilter ==
    \E cols \in DemoTables \cup BulkTables \cup ScenarioTables :
        InitDetectState(cols) /\ InitGenState /\ InitApplyState /\ InitRestState

NextFilter ==
    \/ DetectEnter \/ DetectColumn \/ DetectStore \/ ValidateData
    \/ GenEnter \/ GenColumn \/ GenNextKind
    \/ GenFallbackColumn \/ GenFallbackReturn

SpecFilter == InitFilter /\ [][NextFilter]_vars

(***************************************************************************)
(* C10..: generate_dynamic_filters                                         *)
(***************************************************************************)
\* C10: whatever the frame, the descriptor, the columns argument and
\* max_filters >= 0, at most max_filters controls are rendered in all, over
\* the three kinds together, in the schema mode and in the fallback mode.
C10_AtMostMaxFilters ==
    g_pc # "idle" => Len(controls) <= max_filters

C10_Witness ==
    /\ g_pc = "done"
    /\ "column_types" \in DOMAIN df.attrs
    /\ max_filters = 1
    /\ Len(controls) = 1
    /\ controls[1].widget = "selectbox"
    /\ \E col \in Cols :
          /\ Eligible(col.name)
          /\ col.name \in Range(df.attrs["column_types"]["numeric"])
          /\ MinOf(col.vals) # MaxOf(col.vals)

(***************************************************************************)
(* apply_filters                                                           *)
(*                                                                         *)
(* A value of the filters mapping is [kind, v]: a number, or a string      *)
(* given by its rank as in the cells.  A DataFrame of this function is     *)
(* [columns, index]: the index holds the row labels, which selecting rows  *)
(* by a boolean mask keeps.                                                *)
(***************************************************************************)
\* key.endswith(suffix)
EndsWith(key, suffix) ==
    /\ Len(key) >= Len(suffix)
    /\ SubSeq(key, Len(key) - Len(suffix) + 1, Len(key)) = suffix

\* key[:-n]
DropLast(key, n) == SubSeq(key, 1, Len(key) - n)

\* the chain preceded by a test for a column of the name of the key
DecodedColumnFirst(key) ==
    IF key \in ColumnNames(df.columns) THEN [col |-> key, op |-> "=="]
    ELSE IF EndsWith(key, SuffixMin) THEN [col |-> DropLast(key, 4), op |-> ">="]
    ELSE IF EndsWith(key, SuffixMax) THEN [col |-> DropLast(key, 4), op |-> "<="]
    ELSE IF EndsWith(key, SuffixStart) THEN [col |-> DropLast(key, 6), op |-> ">="]
    ELSE IF EndsWith(key, SuffixEnd) THEN [col |-> DropLast(key, 4), op |-> "<="]
    ELSE [col |-> key, op |-> "=="]

\* the if / elif chain over the suffix of the key
Decoded(key) ==
    IF EndsWith(key, SuffixMin) THEN [col |-> DropLast(key, 4), op |-> ">="]
    ELSE IF EndsWith(key, SuffixMax) THEN [col |-> DropLast(key, 4), op |-> "<="]
    ELSE IF EndsWith(key, SuffixStart) THEN [col |-> DropLast(key, 6), op |-> ">="]
    ELSE IF EndsWith(key, SuffixEnd) THEN [col |-> DropLast(key, 4), op |-> "<="]
    ELSE [col |-> key, op |-> "=="]

\* what the cells of a column of the dtype are
CellKind(dtype) ==
    CASE dtype = "numeric"  -> "number"
      [] dtype = "object"   -> "string"
      [] dtype = "datetime" -> "timestamp"

\* the comparison with > and < in place of >= and <=
HoldsStrict(cell, op, v) ==
    /\ cell # NaN
    /\ CASE op = "==" -> cell = v
         [] op = ">=" -> cell > v
         [] op = "<=" -> cell < v

\* the comparison in which a missing cell compares True
HoldsOrMissing(cell, op, v) ==
    \/ cell = NaN
    \/ CASE op = "==" -> cell = v
         [] op = ">=" -> cell >= v
         [] op = "<=" -> cell <= v

\* one element of Series == value, Series >= value or Series <= value, for
\* a value of the kind of the cells: a missing cell compares False
Holds(cell, op, v) ==
    /\ cell # NaN
    /\ CASE op = "==" -> cell = v
         [] op = ">=" -> cell >= v
         [] op = "<=" -> cell <= v

\* filtered_data[col] <op> value: the mask of the rows that compare True,
\* or TypeError.  A value of another kind than the cells compares False
\* under == and raises under >= and <=; when no cell of the column holds a
\* value, whether >= and <= raise depends on the dtype and on the version of
\* pandas, and both outcomes are kept.
Comparison(col, op, value) ==
    IF CellKind(col.dtype) = value.kind
    THEN { [raises |-> FALSE,
            mask   |-> { r \in 1..Len(col.vals) : Holds(col.vals[r], op, value.v) }] }
    ELSE IF op = "=="
    THEN { [raises |-> FALSE, mask |-> {}] }
    ELSE { [raises |-> TRUE, mask |-> {}] }
         \cup (IF IsAllMissing(col.vals)
               THEN { [raises |-> FALSE, mask |-> {}] } ELSE {})

\* the rows of the frame in reverse order
FrameReversed(d) ==
    [columns |-> [k \in 1..Len(d.columns) |->
                    [d.columns[k] EXCEPT !.vals = Reverse(@)]],
     index   |-> Reverse([r \in 1..NRows(d.columns) |-> r - 1])]

\* data, and data.copy(): the columns and the row labels 0, 1, ...
Frame(d) ==
    [columns |-> d.columns,
     index   |-> [r \in 1..NRows(d.columns) |-> r - 1]]

\* the frame with all its rows, whatever the mask
RowsAtAll(f, mask) == f

\* filtered_data[mask]
RowsAt(f, mask) ==
    [columns |-> [k \in 1..Len(f.columns) |->
                    [f.columns[k] EXCEPT !.vals = AtIndexes(@, mask)]],
     index   |-> AtIndexes(f.index, mask)]

\* if not filters or data is None or data.empty
ReturnsInput(sel, d) == sel = <<>> \/ Empty(d)

\* the values of the filters mappings of the model
SelectionValues ==
    { [kind |-> "string", v |-> Word(1)], [kind |-> "string", v |-> 2],
      [kind |-> "number", v |-> 100] }

\* the keys: every column of the frame, plain and with each suffix, and the
\* column Supplier of an earlier dataset
SelectionKeys(d) ==
    UNION { { name, name \o SuffixMin, name \o SuffixMax,
              name \o SuffixStart, name \o SuffixEnd } :
            name \in ColumnNames(d.columns) }
    \cup { Supplier, Supplier \o SuffixMin }

\* the filters mappings: up to MaxSelections entries of distinct keys
Selections(d) ==
    { sel \in UNION { [1..n -> [key : SelectionKeys(d), value : SelectionValues]] :
                        n \in 0..MaxSelections } :
        \A i \in 1..Len(sel), j \in 1..Len(sel) :
            i # j => sel[i].key # sel[j].key }

\* the call is entered: return data, or filtered_data = data.copy()
ApplyEnter ==
    /\ a_pc = "idle"
    /\ pc \in {"loaded", "returned"}
    /\ \E sel \in Selections(df) :
          /\ selections' = sel
          /\ IF ReturnsInput(sel, df)
             THEN /\ a_pc' = "returned"
                  /\ a_ret' = Frame(df)
                  /\ UNCHANGED << filtered_data, a_idx >>
             ELSE /\ a_pc' = "loop"
                  /\ filtered_data' = Frame(df)
                  /\ a_idx' = 1
                  /\ UNCHANGED a_ret
    /\ a_raised' = "none"
    /\ UNCHANGED << detectVars, genVars, v_ret, restVars >>

\* one iteration of `for key, value in filters.items()` on the frame: the
\* frames it can leave, or the exception that ends the call
StepOutcomes(f, entry) ==
    LET col == Decoded(entry.key).col
        op  == Decoded(entry.key).op
    IN  IF ~HasColumn(f, col)
        THEN { [raised |-> "KeyError", frame |-> f] }
        ELSE { IF outcome.raises
               THEN [raised |-> "TypeError", frame |-> f]
               ELSE [raised |-> "none", frame |-> RowsAt(f, outcome.mask)] :
               outcome \in Comparison(ColumnOf(f, col), op, entry.value) }

\* one iteration of `for key, value in filters.items()`
ApplyStep ==
    /\ a_pc = "loop"
    /\ a_idx <= Len(selections)
    /\ \E o \in StepOutcomes(filtered_data, selections[a_idx]) :
          IF o.raised # "none"
          THEN /\ a_pc' = "raised"
               /\ a_raised' = o.raised
               /\ UNCHANGED << filtered_data, a_idx >>
          ELSE /\ filtered_data' = o.frame
               /\ a_idx' = a_idx + 1
               /\ UNCHANGED << a_pc, a_raised >>
    /\ UNCHANGED << detectVars, genVars, v_ret, restVars, selections, a_ret >>

\* return filtered_data
ApplyReturn ==
    /\ a_pc = "loop"
    /\ a_idx > Len(selections)
    /\ a_pc' = "returned"
    /\ a_ret' = filtered_data
    /\ UNCHANGED << detectVars, genVars, v_ret, restVars, selections, a_idx,
                    filtered_data, a_raised >>

InitApply ==
    \E cols \in ApplyTables :
        InitDetectState(cols) /\ InitGenState /\ InitApplyState /\ InitRestState

NextApply == ApplyEnter \/ ApplyStep \/ ApplyReturn

SpecApply == InitApply /\ [][NextApply]_vars

(***************************************************************************)
(* apply_filters as a function of its arguments, for callers that call it  *)
(* more than once and on the result of an earlier call.                    *)
(***************************************************************************)
\* the frame the loop starts from is the frame the previous call returned
CopyOfLast(data) ==
    IF t_log # <<>> /\ t_log[Len(t_log)].raised = "none"
    THEN t_log[Len(t_log)].ret ELSE data

\* data.copy()
Copy(data) == data

\* the loop over filters.items() from entry i on: the ways the call ends
RECURSIVE Looped(_, _, _)
Looped(f, sel, i) ==
    IF i > Len(sel)
    THEN { [raised |-> "none", ret |-> f] }
    ELSE UNION { IF o.raised # "none"
                 THEN { [raised |-> o.raised, ret |-> NoFrame] }
                 ELSE Looped(o.frame, sel, i + 1) :
                 o \in StepOutcomes(f, sel[i]) }

\* apply_filters(data, filters): the ways the call ends, each with the
\* exception or the DataFrame returned
Applied(data, sel) ==
    IF ReturnsInput(sel, data)
    THEN { [raised |-> "none", ret |-> data] }
    ELSE Looped(Copy(data), sel, 1)

\* apply_filters(apply_filters(data, first), second)
AppliedThen(data, first, second) ==
    UNION { IF o.raised # "none"
            THEN { [raised |-> o.raised, ret |-> NoFrame] }
            ELSE Applied(o.ret, second) :
            o \in Applied(data, first) }

\* the entries of the filters mappings of the callers of the model
Entry(key, kind, v) == [key |-> key, value |-> [kind |-> kind, v |-> v]]

\* the filters mappings of the callers that call repeatedly: none, two
\* selections in both orders, a selection on a column the dataset lacks, a
\* value of another kind than the column, a value no row has
CallSelections ==
    { <<>>,
      << Entry(Category, "string", Word(1)), Entry(Amount \o SuffixMin, "number", 100) >>,
      << Entry(Amount \o SuffixMin, "number", 100), Entry(Category, "string", Word(1)) >>,
      << Entry(Supplier, "string", Word(1)) >>,
      << Entry(Amount \o SuffixEnd, "string", 2) >>,
      << Entry(Category, "number", 100) >> }

\* the mappings that are applied one after the other: those, and single
\* selections
ComposeSelections ==
    CallSelections \cup
    { << Entry(Category, "string", Word(1)) >>,
      << Entry(Amount \o SuffixMin, "number", 100) >>,
      << Entry(OrderDate \o SuffixEnd, "string", 1) >>,
      << Entry(Period_end, "string", Word(1)) >> }

\* a caller calls apply_filters(data, filters) on the dataset: the call, its
\* outcome and the two arguments as they are after it are written down
Call ==
    /\ Len(t_log) < MaxCalls + 1
    /\ pc = "returned"
    /\ \E sel \in CallSelections :
          \E o \in Applied(Frame(df), sel) :
             t_log' = Append(t_log, [data          |-> df,
                                     filters       |-> sel,
                                     raised        |-> o.raised,
                                     ret           |-> o.ret,
                                     data_after    |-> df,
                                     filters_after |-> sel])
    /\ UNCHANGED << detectVars, genVars, v_ret, applyVars, t_trial, session, llmVars >>

InitCalls ==
    \E cols \in ApplyTables :
        InitDetectState(cols) /\ InitGenState /\ InitApplyState /\ InitRestState

NextCalls == DetectEnter \/ DetectColumn \/ DetectStore \/ Call

SpecCalls == InitCalls /\ [][NextCalls]_vars

\* the keys of a mapping
KeysOf(sel) == { sel[i].key : i \in 1..Len(sel) }

\* two mappings are applied one after the other, in both orders, and as one
\* mapping, in both iteration orders; the first is applied once and twice
Compose ==
    /\ pc = "loaded"
    /\ \E A \in ComposeSelections, B \in ComposeSelections :
          /\ KeysOf(A) \cap KeysOf(B) = {}
          /\ t_trial' = [made     |-> TRUE,
                         a        |-> A,
                         b        |-> B,
                         ab       |-> AppliedThen(Frame(df), A, B),
                         ba       |-> AppliedThen(Frame(df), B, A),
                         both     |-> Applied(Frame(df), A \o B),
                         both_rev |-> Applied(Frame(df), B \o A),
                         once     |-> Applied(Frame(df), A),
                         twice    |-> AppliedThen(Frame(df), A, A)]
    /\ UNCHANGED << detectVars, genVars, v_ret, applyVars, t_log, session, llmVars >>

NextCompose == Compose

SpecCompose == InitCalls /\ [][NextCompose]_vars

(***************************************************************************)
(* Vocabulary of the properties of the controls: the rules of emission are *)
(* stated on the recorded kinds and the cells of the frame.                *)
(***************************************************************************)
\* the schema branch of generate_dynamic_filters is the one taken
SchemaMode == ~Empty(df) /\ "column_types" \in DOMAIN df.attrs

\* the list the Schema Recorder stored for a kind, empty when it stored none
Recorded(kind) ==
    IF "column_types" \in DOMAIN df.attrs /\ kind \in DOMAIN df.attrs["column_types"]
    THEN df.attrs["column_types"][kind] ELSE <<>>

\* the column of that name, and whether it is in the eligible list
Named(name) == CHOOSE col \in Cols : col.name = name

Offered(name) == columns.is_none \/ name \in columns.list

\* the columns of a recorded kind that are eligible and meet the emission
\* rule of the kind, in the order of the recorded list
EmittableCategorical ==
    SelectSeq(Recorded("categorical"),
              LAMBDA name : /\ Offered(name)
                            /\ name \in ColumnNames(df.columns)
                            /\ Distinct(Named(name)) <= 100)

EmittableDate ==
    SelectSeq(Recorded("date"),
              LAMBDA name : /\ Offered(name)
                            /\ name \in ColumnNames(df.columns)
                            /\ Distinct(Named(name)) >= 2)

EmittableNumeric ==
    SelectSeq(Recorded("numeric"),
              LAMBDA name : /\ Offered(name)
                            /\ name \in ColumnNames(df.columns)
                            /\ Distinct(Named(name)) >= 2)

\* the kind a control filters on, and the place of the kind in the priority
KindOfWidget(widget) ==
    CASE widget = "selectbox"  -> "categorical"
      [] widget = "date_input" -> "date"
      [] widget = "slider"     -> "numeric"

Priority(widget) ==
    CASE widget = "selectbox"  -> 1
      [] widget = "date_input" -> 2
      [] widget = "slider"     -> 3

PlaceIn(list, name) == CHOOSE k \in 1..Len(list) : list[k] = name

\* the columns of the controls, in the order of emission
ControlColumns == [k \in 1..Len(controls) |-> controls[k].col]

ControlsOf(widget) ==
    { k \in 1..Len(controls) : controls[k].widget = widget }

Min2(a, b) == IF a <= b THEN a ELSE b

\* categorical controls first, then date controls, then numeric controls,
\* each kind in the order of its recorded list
InPriorityOrder ==
    \A i \in 1..Len(controls), j \in 1..Len(controls) :
        i < j =>
            \/ Priority(controls[i].widget) < Priority(controls[j].widget)
            \/ /\ controls[i].widget = controls[j].widget
               /\ PlaceIn(Recorded(KindOfWidget(controls[i].widget)), controls[i].col)
                    < PlaceIn(Recorded(KindOfWidget(controls[j].widget)), controls[j].col)

(***************************************************************************)
(* C11..C16: the controls of generate_dynamic_filters                      *)
(***************************************************************************)
\* C11 as claimed: in the schema mode the controls come in priority order
\* (categorical, date, numeric; each kind in the order of its recorded list);
\* a date column has a control only if budget remains after all emittable
\* categorical columns, a numeric column only if budget remains after all
\* emittable categorical and date columns; with 2 categorical, 1 date and 1
\* numeric emittable column and max_filters = 2 the controls are the two
\* categorical ones.
C11_AsClaimed ==
    (g_pc = "done" /\ SchemaMode) =>
        /\ InPriorityOrder
        /\ ControlsOf("date_input") # {} =>
              Len(EmittableCategorical) < max_filters
        /\ ControlsOf("slider") # {} =>
              Len(EmittableCategorical) + Len(EmittableDate) < max_filters
        /\ ( /\ Len(EmittableCategorical) = 2
             /\ Len(EmittableDate) = 1
             /\ Len(EmittableNumeric) = 1
             /\ max_filters = 2 ) =>
              /\ ControlColumns = EmittableCategorical
              /\ ControlsOf("selectbox") = {1, 2}

\* the part of C11 on the order alone, and its example
C11_OrderAndExample ==
    (g_pc = "done" /\ SchemaMode) =>
        /\ InPriorityOrder
        /\ ( /\ Len(EmittableCategorical) = 2
             /\ Len(EmittableDate) = 1
             /\ Len(EmittableNumeric) = 1
             /\ max_filters = 2 ) =>
              /\ ControlColumns = EmittableCategorical
              /\ ControlsOf("selectbox") = {1, 2}

\* the example of C11 is run, and a categorical control precedes a numeric one
C11_ExampleReached ==
    /\ g_pc = "done" /\ SchemaMode
    /\ Len(EmittableCategorical) = 2
    /\ Len(EmittableDate) = 1
    /\ Len(EmittableNumeric) = 1
    /\ max_filters = 2
    /\ Len(controls) = 2

\* C12 as claimed: in the pipeline detect_column_types ->
\* generate_dynamic_filters a column recorded as Date has a range control
\* whenever it is eligible, holds two different dates and budget remains
\* after the categorical and the earlier date columns, and has none when it
\* holds one date only; on the end-to-end dataset with max_filters = 3 the
\* third control is the range of Date.
C12_AsClaimed ==
    (g_pc = "done" /\ SchemaMode) =>
        /\ \A k \in 1..Len(EmittableDate) :
              Len(EmittableCategorical) + k <= max_filters =>
                 \E c \in ControlsOf("date_input") :
                    controls[c].col = EmittableDate[k]
        /\ \A c \in ControlsOf("date_input") :
              controls[c].col \in Range(EmittableDate)
        /\ (df.columns = EndToEndTable /\ columns.is_none /\ max_filters = 3) =>
              /\ Len(controls) = 3
              /\ controls[3].widget = "date_input"
              /\ controls[3].col = Date

\* C13 as claimed: in the schema mode a categorical column has a control
\* only if it has at most 100 distinct values, and the number of controls is
\* min(max_filters, number of eligible columns that meet the emission rule of
\* their kind), whatever the number of categorical columns skipped for having
\* more than 100 distinct values.
C13_AsClaimed ==
    (g_pc = "done" /\ SchemaMode) =>
        /\ \A c \in ControlsOf("selectbox") :
              Distinct(Named(controls[c].col)) <= 100
        /\ Len(controls)
             = Min2(max_filters,
                    Len(EmittableCategorical) + Len(EmittableDate)
                    + Len(EmittableNumeric))

\* the part of C13 that holds: the count over the categorical and the
\* numeric columns, the Date columns left out
C13_SkippedIsFree ==
    (g_pc = "done" /\ SchemaMode) =>
        /\ \A c \in ControlsOf("selectbox") :
              Distinct(Named(controls[c].col)) <= 100
        /\ Len(controls)
             = Min2(max_filters,
                    Len(EmittableCategorical) + Len(EmittableNumeric))

\* a categorical column of more than 100 distinct values is skipped and the
\* one control of the budget goes to the categorical column after it
C13_SkipReached ==
    /\ g_pc = "done" /\ SchemaMode
    /\ max_filters = 1
    /\ \E k \in 1..Len(Recorded("categorical")) :
          /\ Offered(Recorded("categorical")[k])
          /\ Distinct(Named(Recorded("categorical")[k])) > 100
          /\ k < Len(Recorded("categorical"))
          /\ ControlColumns = << Recorded("categorical")[k + 1] >>

\* the key is the name of the column or the name followed by a suffix
RefersTo(key, name) ==
    key \in { name, name \o SuffixMin, name \o SuffixMax,
              name \o SuffixStart, name \o SuffixEnd }

\* C14: when a columns list is given, every control and every key of the
\* returned mapping refers to a column of the list, in the schema mode and
\* in the fallback mode; a column outside the list has no control.
C14_OnlyEligible ==
    (g_pc # "idle" /\ ~columns.is_none) =>
        /\ \A c \in 1..Len(controls) : controls[c].col \in columns.list
        /\ \A key \in DOMAIN filters :
              \E name \in columns.list : RefersTo(key, name)

C14_Witness ==
    /\ g_pc = "done" /\ SchemaMode
    /\ ~columns.is_none
    /\ max_filters = 2
    /\ Len(controls) = 1
    /\ controls[1].widget = "slider"
    /\ controls[1].col \o SuffixMin \in DOMAIN filters
    /\ \E name \in Range(Recorded("categorical")) :
          /\ name \notin columns.list
          /\ Distinct(Named(name)) <= 100

\* the same in the fallback mode: a textual column outside the list is left
\* without control although budget remains
C14_FallbackReached ==
    /\ g_pc = "done" /\ ~SchemaMode /\ ~Empty(df)
    /\ ~columns.is_none
    /\ max_filters = 2
    /\ Len(controls) = 1
    /\ controls[1].col \in DOMAIN filters
    /\ \E col \in Cols : col.dtype = "object" /\ col.name \notin columns.list

\* max - min over the non-missing values of the column
Spread(col) ==
    LET present == Range(col.vals) \ {NaN}
        lo == CHOOSE v \in present : \A w \in present : v <= w
        hi == CHOOSE v \in present : \A w \in present : w <= v
    IN  hi - lo

\* the fraction <<num, den>> is the number n / d
IsFraction(step, n, d) == step[1] * d = n * step[2]

\* C15: a numeric column has a range control only if its minimum differs
\* from its maximum, and the step of the control is range/100 when range >
\* 1000, 1 when 100 < range <= 1000, 0.1 when 10 < range <= 100 and 0.01 when
\* range <= 10, with range = max - min.
C15_StepRule ==
    (g_pc # "idle" /\ SchemaMode) =>
        \A c \in ControlsOf("slider") :
            LET range == Spread(Named(controls[c].col))
            IN  /\ range # 0
                /\ range > 1000 => IsFraction(controls[c].step, range, 100)
                /\ (100 < range /\ range <= 1000) =>
                      IsFraction(controls[c].step, 1, 1)
                /\ (10 < range /\ range <= 100) =>
                      IsFraction(controls[c].step, 1, 10)
                /\ range <= 10 => IsFraction(controls[c].step, 1, 100)

C15_Witness ==
    /\ g_pc = "done" /\ SchemaMode
    /\ \E c \in ControlsOf("slider") :
          /\ Spread(Named(controls[c].col)) = 1000
          /\ controls[c].step = <<1, 1>>

\* the fallback branch of generate_dynamic_filters is the one taken
FallbackMode == ~Empty(df) /\ "column_types" \notin DOMAIN df.attrs

\* the distinct values of a column, the missing marker counted as one of them
DistinctOrMissing(col) == Cardinality({ col.vals[k] : k \in 1..Len(col.vals) })

\* the names of the eligible columns that pass the test, in dataset order
Candidates(Test(_)) ==
    LET names == [k \in 1..Len(df.columns) |-> df.columns[k].name]
    IN  SelectSeq(names, LAMBDA name : Offered(name) /\ Test(Named(name)))

FirstOf(s, n) == [k \in 1..Min2(n, Len(s)) |-> s[k]]

\* C16 as claimed: in the fallback mode the candidates are the eligible
\* columns that are textual or have fewer than 10 distinct values; the first
\* max_filters of them in dataset order are kept, and the controls are the
\* enum-choice controls of the kept columns with at most 100 distinct values.
C16_AsClaimed ==
    (g_pc = "done" /\ FallbackMode) =>
        /\ ControlsOf("selectbox") = 1..Len(controls)
        /\ ControlColumns
             = SelectSeq(FirstOf(Candidates(LAMBDA col : \/ col.dtype = "object"
                                                         \/ Distinct(col) < 10),
                                 max_filters),
                         LAMBDA name : Distinct(Named(name)) <= 100)

\* C16 as claimed, the missing marker counted as a distinct value throughout
C16_AsClaimedCountingMissing ==
    (g_pc = "done" /\ FallbackMode) =>
        /\ ControlsOf("selectbox") = 1..Len(controls)
        /\ ControlColumns
             = SelectSeq(FirstOf(Candidates(LAMBDA col : \/ col.dtype = "object"
                                                         \/ DistinctOrMissing(col) < 10),
                                 max_filters),
                         LAMBDA name : DistinctOrMissing(Named(name)) <= 100)

\* what the fallback mode computes: the missing marker counts among the
\* fewer than 10 values of a candidate and not among the at most 100 values
\* of a control
C16_FallbackRule ==
    (g_pc = "done" /\ FallbackMode) =>
        /\ ControlsOf("selectbox") = 1..Len(controls)
        /\ ControlColumns
             = SelectSeq(FirstOf(Candidates(LAMBDA col : \/ col.dtype = "object"
                                                         \/ DistinctOrMissing(col) < 10),
                                 max_filters),
                         LAMBDA name : Distinct(Named(name)) <= 100)

\* a kept column of more than 100 distinct values is dropped and the
\* candidate after it gets no control in its place
C16_DropReached ==
    /\ g_pc = "done" /\ FallbackMode
    /\ columns.is_none
    /\ max_filters = 1
    /\ controls = <<>>
    /\ \E j \in 1..Len(df.columns), k \in 1..Len(df.columns) :
          /\ j < k
          /\ df.columns[j].dtype = "object" /\ Distinct(df.columns[j]) > 100
          /\ df.columns[k].dtype = "object" /\ Distinct(df.columns[k]) <= 100

(***************************************************************************)
(* C17..C20: apply_filters                                                 *)
(***************************************************************************)
\* the row labels of the input dataset
FullIndex == [r \in 1..NRows(df.columns) |-> r - 1]

\* the cell holds a value that the selected value can be compared with
Comparable(col, r, value) ==
    /\ col.vals[r] # NaN
    /\ value.kind = (IF col.dtype = "numeric" THEN "number" ELSE "string")

\* the key is a name followed by one of the four suffixes
Suffixed(key) ==
    \E n \in 0..Len(key) :
        key \in { SubSeq(key, 1, n) \o suffix :
                    suffix \in {SuffixMin, SuffixMax, SuffixStart, SuffixEnd} }

\* row r meets the selection: column = value for a plain key, column >= value
\* for <col>_min and <col>_start, column <= value for <col>_max and <col>_end
Meets(sel, r) ==
    \E col \in Cols :
        /\ Comparable(col, r, sel.value)
        /\ \/ sel.key = col.name /\ ~Suffixed(sel.key) /\ col.vals[r] = sel.value.v
           \/ /\ sel.key \in {col.name \o SuffixMin, col.name \o SuffixStart}
              /\ col.vals[r] >= sel.value.v
           \/ /\ sel.key \in {col.name \o SuffixMax, col.name \o SuffixEnd}
              /\ col.vals[r] <= sel.value.v

\* the selection names a column of the dataset
Live(sel) == \E name \in ColumnNames(df.columns) : RefersTo(sel.key, name)

\* the returned dataset holds the given rows of the input, in input order
ResultIsRows(rows) ==
    /\ a_ret.index = AtIndexes(FullIndex, rows)
    /\ Len(a_ret.columns) = Len(df.columns)
    /\ \A k \in 1..Len(df.columns) :
          /\ a_ret.columns[k].name = df.columns[k].name
          /\ a_ret.columns[k].vals = AtIndexes(df.columns[k].vals, rows)

\* C17: apply_filters with an empty mapping returns a dataset equal to its
\* input: same rows, same order, same columns, datasets without rows included.
C17_EmptySelectionIdentity ==
    (a_pc = "returned" /\ selections = <<>>) =>
        /\ a_ret.columns = df.columns
        /\ a_ret.index = FullIndex

C17_Witness ==
    /\ a_pc = "returned"
    /\ selections = <<>>
    /\ NRows(df.columns) > 1
    /\ a_ret.index = FullIndex

\* the same call on a dataset without rows
C17_NoRowsReached ==
    /\ a_pc = "returned"
    /\ selections = <<>>
    /\ Len(df.columns) > 0 /\ NRows(df.columns) = 0
    /\ a_ret.columns = df.columns

\* C18: when apply_filters returns, the result holds exactly the rows of the
\* input that meet every selection, in input order: none of them is dropped
\* and no other row is kept.
C18_ExactlyTheRowsMeetingAll ==
    a_pc = "returned" =>
        ResultIsRows({ r \in 1..NRows(df.columns) :
                         \A i \in 1..Len(selections) : Meets(selections[i], r) })

\* {Category: "A", Amount_min: 100} keeps the rows with Category = "A" and
\* Amount >= 100
C18_Witness ==
    /\ a_pc = "returned"
    /\ selections = << [key |-> Category, value |-> [kind |-> "string", v |-> Word(1)]],
                       [key |-> Amount \o SuffixMin,
                        value |-> [kind |-> "number", v |-> 100]] >>
    /\ a_ret.index = <<1, 5>>
    /\ NRows(df.columns) = 6

\* C19 as claimed: a selection whose key names no column of the dataset is
\* a no-op: apply_filters does not raise on it and returns the rows that meet
\* the other selections.
C19_AsClaimed ==
    /\ a_raised # "KeyError"
    /\ a_pc = "returned" =>
          ResultIsRows({ r \in 1..NRows(df.columns) :
                           \A i \in 1..Len(selections) :
                              Live(selections[i]) => Meets(selections[i], r) })

\* C20 as claimed: a value that cannot be compared with the values of its
\* column does not make apply_filters raise: the failure of that one filter
\* is part of what the call hands back.
C20_AsClaimed == a_raised # "TypeError"

(***************************************************************************)
(* C27..C29: the budget of generate_dynamic_filters, validate_data         *)
(***************************************************************************)
\* the columns of the controls of a widget, in the order of emission
ColumnsOf(widget) ==
    LET ks == ControlsOf(widget)
    IN  AtIndexes(ControlColumns, ks)

\* the columns the last call of detect_column_types classified Monetary,
\* Identifier or Text
ClassifiedUnfiltered == Range(monetary_cols) \cup Range(id_cols) \cup Range(text_cols)

\* the columns the stored descriptor lists under a kind that the controls
\* are built from
ListedForControls == Range(Recorded("categorical")) \cup Range(Recorded("numeric"))

\* C27 as claimed: in the schema mode no control is on a column that
\* detect_column_types classified Monetary, Identifier or Text, and a call
\* whose eligible list holds only such columns returns an empty mapping.
C27_AsClaimed ==
    (SchemaMode /\ g_pc # "idle" /\ pc = "returned") =>
        /\ \A c \in 1..Len(controls) : controls[c].col \notin ClassifiedUnfiltered
        /\ (~columns.is_none /\ columns.list \subseteq ClassifiedUnfiltered) =>
              filters = EmptyDict

\* the statement on the descriptor as detect_column_types wrote it
C27_AsDetected == v_ret = NotValidated => C27_AsClaimed

\* C27: in the schema mode every control is on a column that the stored
\* descriptor lists as categorical or numeric: a column listed only as
\* monetary, id or text has none, and a call whose eligible list holds no
\* column listed as categorical or numeric emits no control and returns an
\* empty mapping.
C27_OnlyCategoricalAndNumericLists ==
    (SchemaMode /\ g_pc # "idle") =>
        /\ \A c \in 1..Len(controls) : controls[c].col \in ListedForControls
        /\ (~columns.is_none /\ columns.list \cap ListedForControls = {}) =>
              /\ controls = <<>>
              /\ filters = EmptyDict

\* the call is given a Monetary column and an Identifier column with a
\* budget of two, and returns without a control
C27_Witness ==
    /\ g_pc = "done" /\ SchemaMode
    /\ max_filters >= 2
    /\ ~columns.is_none
    /\ columns.list \cap Range(Recorded("monetary")) # {}
    /\ columns.list \cap Range(Recorded("id")) # {}
    /\ columns.list \subseteq ColumnNames(df.columns)
    /\ columns.list \cap ListedForControls = {}
    /\ controls = <<>>
    /\ filters = EmptyDict

\* the columns a file of the data type must have
RequiredOf(data_type) ==
    CASE data_type = "Spend Data"           -> {Supplier, Category}
      [] data_type = "Supplier Master Data" -> {SupplierID}
      [] data_type = "Contract Data"        -> {ContractID}
      [] data_type = "Performance Data"     -> {SupplierID}

\* C29: validate_data ends by returning (is_valid, message, data), never by
\* an exception; data is None when is_valid is False; when is_valid is True
\* the data has every required column of the data type and its column_types
\* lists only columns of the data.
C29_ValidateReturnsTriple ==
    v_ret # NotValidated =>
        /\ DOMAIN v_ret = {"is_valid", "message", "data"}
        /\ v_ret.is_valid \in BOOLEAN
        /\ ~v_ret.is_valid => v_ret.data = "None"
        /\ v_ret.is_valid =>
              /\ v_ret.data # "None"
              /\ v_ret.message[1] \in DataTypes
              /\ RequiredOf(v_ret.message[1]) \subseteq ColumnNames(df.columns)
              /\ "column_types" \in DOMAIN df.attrs
              /\ \A kind \in DOMAIN df.attrs["column_types"] :
                    Range(df.attrs["column_types"][kind])
                        \subseteq ColumnNames(df.columns)

\* a supplier master file without the columns AnnualRevenue, City and
\* Active is valid, and no list names them
C29_Witness ==
    /\ v_ret.is_valid
    /\ v_ret.message[1] = "Supplier Master Data"
    /\ SupplierID \in ColumnNames(df.columns)
    /\ AnnualRevenue \notin ColumnNames(df.columns)
    /\ df.attrs["column_types"]["categorical"] = <<Category, Country>>
    /\ df.attrs["column_types"]["numeric"] = <<>>

\* the file whose categorical column holds strings and missing values: the
\* TypeError of sorted() is returned as a message
C29_ErrorReached ==
    /\ v_ret = Invalid("Error during validation")
    /\ \E col \in Cols : SortedAllRaises(col)

\* C28: in the schema mode filter_count is the number of controls emitted so
\* far: a range control is only emitted for a column with two different
\* values, a column without one and a column whose bounds cannot be computed
\* leave the counter as it is, and at the end the numeric controls are the
\* first emittable numeric columns, as many as the budget left by the
\* categorical controls allows.
C28_BudgetCountsControls ==
    (SchemaMode /\ g_pc # "idle") =>
        /\ filter_count = Len(controls)
        /\ \A c \in 1..Len(controls) : controls[c].count = c - 1
        /\ \A c \in ControlsOf("slider") \cup ControlsOf("date_input") :
              Distinct(Named(controls[c].col)) >= 2
        /\ g_pc = "done" =>
              /\ ColumnsOf("slider")
                   = FirstOf(EmittableNumeric, Len(ColumnsOf("slider")))
              /\ \/ Len(controls) = max_filters
                 \/ Len(ColumnsOf("slider")) = Len(EmittableNumeric)

\* a numeric column of one value comes first, and the one control of the
\* budget goes to the numeric column after it
C28_Witness ==
    /\ g_pc = "done" /\ SchemaMode
    /\ max_filters = 1
    /\ \E k \in 1..Len(Recorded("numeric")) :
          /\ Offered(Recorded("numeric")[k])
          /\ Recorded("numeric")[k] \in ColumnNames(df.columns)
          /\ Distinct(Named(Recorded("numeric")[k])) = 1
          /\ k < Len(Recorded("numeric"))
          /\ ControlColumns = << Recorded("numeric")[k + 1] >>
          /\ controls[1].widget = "slider"

(***************************************************************************)
(* C21..: further properties of apply_filters                              *)
(***************************************************************************)
\* the cell of row r of the input in the column of the name
CellOf(name, r) == (CHOOSE col \in Cols : col.name = name).vals[r]

\* the input rows whose cell in the column equals the value
Matching(name, value) ==
    { r \in 1..NRows(df.columns) :
        \E col \in Cols : /\ col.name = name
                          /\ Comparable(col, r, value)
                          /\ col.vals[r] = value.v }

\* the call was given one selection, an equality: its key is a column name
\* and carries no suffix
SingleEquality ==
    /\ Len(selections) = 1
    /\ selections[1].key \in ColumnNames(df.columns)
    /\ ~Suffixed(selections[1].key)

\* C22: the rows returned by apply_filters are rows of the input, each one
\* once and in the order of the input; a single selection column = value
\* returns only rows whose cell equals the value, and fewer rows than the
\* input has unless every input row matches.
C22_SubSequence ==
    a_pc = "returned" =>
        /\ \A i \in 1..Len(a_ret.index) :
              /\ a_ret.index[i] \in 0..(NRows(df.columns) - 1)
              /\ \A k \in 1..Len(df.columns) :
                    a_ret.columns[k].vals[i] = df.columns[k].vals[a_ret.index[i] + 1]
        /\ \A i \in 1..Len(a_ret.index), j \in 1..Len(a_ret.index) :
              i < j => a_ret.index[i] < a_ret.index[j]
        /\ SingleEquality =>
              LET name  == selections[1].key
                  value == selections[1].value
              IN  /\ \A i \in 1..Len(a_ret.index) :
                        a_ret.index[i] + 1 \in Matching(name, value)
                  /\ \/ Len(a_ret.index) < NRows(df.columns)
                     \/ Matching(name, value) = 1..NRows(df.columns)

\* {Category: "A"} on six rows of which four are of category "A"
C22_Witness ==
    /\ a_pc = "returned"
    /\ selections = << [key |-> Category, value |-> [kind |-> "string", v |-> Word(1)]] >>
    /\ a_ret.index = <<0, 1, 3, 5>>
    /\ NRows(df.columns) = 6

\* the selection of the key is on the column of the name: an equality for
\* the plain name, a bound for the name followed by a suffix
Constrains(key, name) ==
    \/ key = name /\ ~Suffixed(key)
    \/ key \in { name \o SuffixMin, name \o SuffixMax,
                 name \o SuffixStart, name \o SuffixEnd }

\* C26: no row returned by a call that applied a selection on a column has a
\* missing value in that column, whatever the bound; a row that meets every
\* selection is returned whatever is missing in its other columns.
C26_SelectedColumnsHaveValues ==
    (a_pc = "returned" /\ ~ReturnsInput(selections, df)) =>
        /\ \A i \in 1..Len(selections), col \in Cols :
              Constrains(selections[i].key, col.name) =>
                 \A n \in 1..Len(a_ret.index) : col.vals[a_ret.index[n] + 1] # NaN
        /\ \A r \in 1..NRows(df.columns) :
              (\A i \in 1..Len(selections) : Meets(selections[i], r)) =>
                 \E n \in 1..Len(a_ret.index) : a_ret.index[n] = r - 1

\* {OrderDate_end: "2023-12-31"}, the latest date of the column: the row
\* without order date is dropped, the row without amount is kept
C26_Witness ==
    /\ a_pc = "returned"
    /\ selections = << [key |-> OrderDate \o SuffixEnd,
                        value |-> [kind |-> "string", v |-> 2]] >>
    /\ NRows(df.columns) = 6
    /\ CellOf(OrderDate, 5) = NaN
    /\ CellOf(Amount, 4) = NaN
    /\ \A r \in 1..NRows(df.columns) : CellOf(OrderDate, r) <= 2
    /\ a_ret.index = <<0, 1, 2, 3, 5>>

\* the mapping has one entry, whose key is the name of a column of the
\* dataset and at the same time the name of another column followed by a
\* suffix
AmbiguousKey ==
    /\ Len(selections) = 1
    /\ selections[1].key \in ColumnNames(df.columns)
    /\ Suffixed(selections[1].key)

\* the name the key is left with when its suffix is taken away
Stem(key) ==
    CHOOSE base \in { SubSeq(key, 1, n) : n \in 0..Len(key) } :
        key \in { base \o SuffixMin, base \o SuffixMax,
                  base \o SuffixStart, base \o SuffixEnd }

\* C25: a key that ends in _min, _max, _start or _end is applied as a bound
\* on the column named by the key without the suffix, also when the key is
\* itself the name of a column of the dataset: the call raises KeyError when
\* the dataset has no column of the shorter name, and otherwise returns the
\* rows that meet the bound on that column, which are not the rows whose
\* cell in the column of the full name equals the value.
C25_SuffixDecodedAsBound ==
    (AmbiguousKey /\ ~ReturnsInput(selections, df) /\ a_pc \in {"returned", "raised"}) =>
        LET key == selections[1].key
        IN  IF Stem(key) \notin ColumnNames(df.columns)
            THEN a_pc = "raised" /\ a_raised = "KeyError"
            ELSE a_pc = "returned" =>
                    ResultIsRows({ r \in 1..NRows(df.columns) :
                                     Meets(selections[1], r) })

\* {Period_end: "A"} on a dataset with the columns Period and Period_end:
\* the rows are kept by Period <= "A"; a row whose Period_end is "B", and one
\* whose Period_end is missing, are returned, and a row whose Period_end is
\* "A" is not
C25_Witness ==
    /\ a_pc = "returned"
    /\ selections = << [key |-> Period_end, value |-> [kind |-> "string", v |-> Word(1)]] >>
    /\ Period_end = Period \o SuffixEnd
    /\ {Period, Period_end} \subseteq ColumnNames(df.columns)
    /\ CellOf(Period_end, 2) = Word(2)
    /\ CellOf(Period_end, 3) = NaN
    /\ CellOf(Period_end, 4) = Word(1)
    /\ a_ret.index = <<0, 1, 2>>

\* the same selection on a dataset that has the column Period_end and no
\* column Period
C25_KeyErrorReached ==
    /\ a_pc = "raised" /\ a_raised = "KeyError"
    /\ selections = << [key |-> Period_end, value |-> [kind |-> "string", v |-> Word(1)]] >>
    /\ Period_end \in ColumnNames(df.columns)
    /\ Period \notin ColumnNames(df.columns)

\* generate_dynamic_filters returns the equality selection of the column
\* Period_end under the key Period_end
C25_EmittedReached ==
    /\ g_pc = "done"
    /\ \E c \in 1..Len(controls) :
          controls[c].widget = "selectbox" /\ controls[c].col = Period_end
    /\ Period_end \in DOMAIN filters
    /\ filters[Period_end] = Word(1)

(***************************************************************************)
(* C21, C24: apply_filters called more than once                           *)
(***************************************************************************)
\* the steps of the call and the function of the arguments agree
StepsAgreeWithApplied ==
    /\ a_pc = "returned" =>
          [raised |-> "none", ret |-> a_ret] \in Applied(Frame(df), selections)
    /\ a_pc = "raised" =>
          [raised |-> a_raised, ret |-> NoFrame] \in Applied(Frame(df), selections)

C24_AsClaimed ==
    t_trial.made =>
        /\ t_trial.ab = t_trial.ba
        /\ t_trial.ab = t_trial.both
        /\ t_trial.both = t_trial.both_rev
        /\ t_trial.twice = t_trial.once

\* every entry of the mapping names a column of the dataset and gives a
\* value of the kind of its cells
Sound(sel) ==
    \A i \in 1..Len(sel) :
        \E col \in Cols :
            /\ RefersTo(sel[i].key, col.name)
            /\ Constrains(sel[i].key, col.name)
            /\ sel[i].value.kind = (IF col.dtype = "numeric" THEN "number" ELSE "string")

\* the part of C24 that holds: the statement for mappings whose keys name
\* columns of the dataset and whose values are of the kind of the column
C24_WhenNothingRaises ==
    (t_trial.made /\ Sound(t_trial.a) /\ Sound(t_trial.b)) => C24_AsClaimed

\* {Category: "A"} and {Amount_min: 100} were applied in the five ways and
\* each way returned the rows 1 and 5
C24_ComposedReached ==
    /\ t_trial.made
    /\ t_trial.a = << Entry(Category, "string", Word(1)) >>
    /\ t_trial.b = << Entry(Amount \o SuffixMin, "number", 100) >>
    /\ \A o \in t_trial.ab : o.raised = "none" /\ o.ret.index = <<1, 5>>
    /\ t_trial.ab = t_trial.both

(***************************************************************************)
(* C23: the descriptors kept in the session state                          *)
(***************************************************************************)
\* the column types are those of the dataset: every listed name is a column
\* of it, and every column of it that holds a value is listed
Describes(column_types, data) ==
    /\ \A kind \in DOMAIN column_types :
          Range(column_types[kind]) \subseteq ColumnNames(data.columns)
    /\ \A k \in 1..Len(data.columns) :
          HasValue(data.columns[k]) =>
             \E kind \in DOMAIN column_types :
                data.columns[k].name \in Range(column_types[kind])

\* C23 as claimed: whenever the session state holds column types or unique
\* values for a dataset slot, they are those of the dataset the slot holds
\* now.
C23_AsClaimed ==
    \A state_var \in StateVars :
        /\ <<state_var, "column_types">> \in DOMAIN session =>
              Describes(session[<<state_var, "column_types">>], session[<<state_var>>])
        /\ <<state_var, "unique_values">> \in DOMAIN session =>
              DOMAIN session[<<state_var, "unique_values">>]
                  \subseteq ColumnNames(session[<<state_var>>].columns)

\* the part of C23 that holds: while the slot holds an uploaded dataset, the
\* stored column types and unique values are those of that dataset
C23_WhileUploaded ==
    \A state_var \in StateVars :
        "column_types" \in DOMAIN session[<<state_var>>].attrs =>
            /\ session[<<state_var, "column_types">>]
                 = session[<<state_var>>].attrs["column_types"]
            /\ session[<<state_var, "unique_values">>]
                 = session[<<state_var>>].attrs["unique_values"]
            /\ Describes(session[<<state_var, "column_types">>], session[<<state_var>>])

\* a second file was uploaded for a slot that held an uploaded dataset, and
\* the stored column types are those of the second
C23_ReplacedReached ==
    /\ prev.set /\ prev.columns # df.columns
    /\ session[<<"spend_data">>] = df
    /\ session[<<"spend_data", "column_types">>] = df.attrs["column_types"]
    /\ Describes(session[<<"spend_data", "column_types">>], df)

(***************************************************************************)
(* C30: the response cache of analyze_text_with_llm                        *)
(***************************************************************************)
\* nothing but a result the provider gave in this call is stored, under the
\* key of the call; results of errors and of a missing configuration are not
OnlyResultsStored ==
    l_last.made =>
        /\ l_last.cache_after # l_last.cache_before =>
              /\ l_last.produced
              /\ l_last.cache_after
                   = Stored(SetItem(Get(l_last.cache_before, EmptyDict),
                                    l_last.cache_key, l_last.ret))
        /\ \A k \in DOMAIN Get(llm_response_cache, EmptyDict) :
              llm_response_cache.value[k] \in ProviderResults \cup {LocalPlaceholder}

\* with caching disabled or without a key the cache is not written and the
\* value returned is not taken from it
NoCachingNoCache ==
    (l_last.made /\ ~(l_last.caching /\ l_last.cache_key # NoKey)) =>
        /\ l_last.cache_after = l_last.cache_before
        /\ (l_last.text # "" /\ l_last.configured) => (l_last.produced \/ l_last.raised)

\* the last call had caching enabled, a configured provider and a key for
\* which an earlier call returned a provider result under caching
LaterCall ==
    /\ l_last.made
    /\ l_last.caching /\ l_last.cache_key # NoKey /\ l_last.configured
    /\ l_last.cache_key \in DOMAIN l_last.first_before

\* the last call returned the result stored for its key and did not ask the
\* provider
ServedFromCache ==
    /\ l_last.ret = l_last.first_before[l_last.cache_key]
    /\ ~l_last.called /\ ~l_last.produced

\* C30 as claimed: with caching enabled and a key, once a provider result
\* was returned for the key, every later call with the key and a configured
\* provider returns that result without calling the provider; errors and
\* "not configured" are never stored; without caching or key the cache is
\* neither read nor written.
C30_AsClaimed ==
    /\ LaterCall => ServedFromCache
    /\ OnlyResultsStored
    /\ NoCachingNoCache

\* C30: with caching enabled and a key, once a provider result was returned
\* for the key, every later call with the key, a non-empty text and a
\* configured provider returns that result without calling the provider;
\* errors and "not configured" are never stored; without caching or key the
\* cache is neither read nor written.
C30_CacheServesLaterCalls ==
    /\ (LaterCall /\ l_last.text # "") => ServedFromCache
    /\ OnlyResultsStored
    /\ NoCachingNoCache

\* a later call with text is served the stored "result 1" although caching
\* was disabled, and the key asked for without the cache, in between
C30_Witness ==
    /\ LaterCall /\ l_last.text # "" /\ ServedFromCache
    /\ l_last.ret = "result 1"
    /\ l_last.cache_key = "k1"
    /\ DOMAIN Get(l_last.cache_before, EmptyDict) = {"k1", "k2"}
    /\ l_last.cache_before.value["k2"] = LocalPlaceholder

\* a later call without text is answered "No text provided for analysis"
C30_NoTextReached ==
    /\ LaterCall /\ l_last.text = ""
    /\ l_last.ret = "No text provided for analysis"

=============================================================================
